---- MODULE Spec2Model ----
(***************************************************************************)
(* Build event protocol view of bazel-stack-vscode                         *)
(* (BuildEventProtocolView, BuildEventState and the item classes).         *)
(*                                                                         *)
(* The view receives BazelBuildEvent values one at a time, keeps a list of *)
(* tree items, and forwards cross-reference events (namedSetOfFiles,       *)
(* configured) to the BuildEventState tracker.  TargetCompleteItem         *)
(* children are resolved lazily through the tracker.                       *)
(***************************************************************************)
EXTENDS Integers, Sequences, FiniteSets, TLC

VARIABLES
    items,            \* BuildEventProtocolView.items
    testsPassed,      \* BuildEventProtocolView.testsPassed
    state,            \* BuildEventProtocolView.state : BuildEventState
    problemCollector, \* BuildEventProtocolView.problemCollector
    detached,         \* items clear() emptied from the list, which the
                      \* tree still holds from the build before
    sequenceNumber,   \* obe.sequenceNumber of the next event to arrive
    last,             \* history: the operation performed by the last step
    didChangeTextTimer, \* BuildifierDiagnosticsManager: the timer of the
                        \* last text change, NoTimer when null
    timers,           \* the timers the event loop holds pending
    now,              \* the clock of the event loop, in milliseconds
    changes,          \* history: the text-change events delivered
    lintRuns,         \* history: the calls of updateDiagnostics
    feature,          \* BzlFeature: its fields, the position of its
                      \* tryConnectServer run and the history of the run
    dap,              \* DAPClient: rawData and contentLength, the bytes
                      \* the stream has still to deliver, and the history
                      \* of the messages dispatched
    workspaces,       \* BzlWorkspaceListView: its fields, its listExternals
                      \* calls in progress and the history of the events
                      \* it fired
    signup            \* BzlGetStarted: its fields, what its panel shows,
                      \* the flows in progress and the history of the
                      \* subscription requests it issued

viewVars ==
    <<items, testsPassed, state, problemCollector, detached, sequenceNumber, last>>

lintVars == <<didChangeTextTimer, timers, now, changes, lintRuns>>

\* the objects that neither the view nor the diagnostics manager reads
componentVars == <<feature, dap, workspaces, signup>>

vars == <<viewVars, lintVars, componentVars>>

----------------------------------------------------------------------------
(* Bounds of the model *)

\* number of build events delivered in one run
MaxEvents == 3
\* number of text changes, of changes of the active editor and of steps
\* of the clock in one run of the lint specification
MaxChanges == 3
MaxEditorChanges == 1
MaxTicks == 4
\* number of calls of dispose() and deactivate() in one run
MaxDisposes == 2
\* number of messages in a stream and of bytes in a message body
MaxMessages == 2
MaxBodyLen == 2
\* number of workspace changes, of select commands and of getRootItems
\* calls in one run of the workspace list view
MaxWorkspaceChanges == 2
MaxSelects == 2
MaxListCalls == 2
\* commands executed and subscriptions requested in one run of the wizard
MaxCommands == 3
MaxSubscriptions == 2
\* number of build events delivered in one run of the tracker specification
MaxTrackerEvents == 2
\* nested file-set references carried by one namedSetOfFiles event
MaxEventFileSets == 1
\* output groups carried by one completed event
MaxOutputGroups == 2
\* nested file-set references per set in the maps SpecCollect starts from
MaxNestedFileSets == 2
\* ids in one call of collectFilesFromFileSetIds under SpecCollect
MaxCollectIds == 2
\* number of build events delivered in one run of the specification of
\* the problems of actions
MaxProblemEvents == 2
\* tokens of the data handed to parseProblems under SpecParse
MaxDataLen == 4
\* nesting of collectFilesFromFileSet calls the call stack holds: the
\* recursion has no bound of its own, and a deeper call raises RangeError
StackLimit == 3

----------------------------------------------------------------------------
(* Values *)

Ids == {"A", "B"}
Labels == {"//pkg:a"}
Kinds == {"cc_library rule", "genrule"}
FileNames == <<"f1", "f2">>

\* `undefined` for a field that otherwise holds a record
Undefined == [undefined |-> TRUE]
\* what the template literal prints for an undefined kind
UndefinedKind == "undefined"

\* an int64 field that is present on the decoded message
Millis(t) == [millis |-> t]
\* startTimeMillis of a started event: absent, or a time
StartTimes == {Undefined, Millis(1000)}
\* finishTimeMillis of a finished event: absent, or a time
FinishTimes == {Undefined, Millis(2500)}
\* the times of the specification of the elapsed time: absent, equal,
\* later and earlier ones
ElapsedTimes == {Undefined, Millis(1000), Millis(2500)}

EmptyMap == [k \in {} |-> k]

SeqsUpTo(S, n) == UNION {[1..k -> S] : k \in 0..n}

Range(s) == {s[i] : i \in 1..Len(s)}

\* Map.set(k, v)
MapSet(m, k, v) == [x \in (DOMAIN m) \cup {k} |-> IF x = k THEN v ELSE m[x]]

\* A File record of a namedSetOfFiles event.  Files are compared by object
\* identity in Set<File>; the objects of the set registered under an id are
\* identified by that id and their name.
File(owner, name) == [name |-> name, owner |-> owner]

\* The `files` lists an event may carry: none, or f1 and f2
FilesOf(owner, n) == [i \in 1..n |-> File(owner, FileNames[i])]
FileLists(owner) == {FilesOf(owner, 0), FilesOf(owner, 2)}

\* payload of a namedSetOfFiles event
NamedSetOfFiles(files, fileSets) == [files |-> files, fileSets |-> fileSets]

\* one output group of a completed event names one file set
OutputGroupsOf == {[fileSets |-> <<id>>] : id \in Ids}

----------------------------------------------------------------------------
(* Items (BazelBuildEventItem and subclasses) *)

BuildStartedItem(e) == [type |-> "BuildStartedItem", seq |-> e.seq]

\* Long.fromValue(val) reads val.low of a value that is neither a number
\* nor a string: a TypeError for undefined
LongFromValueThrows(val) == val = Undefined

\* started?.startTimeMillis
StartTimeMillisOf(started) ==
    IF started = Undefined THEN Undefined ELSE started.startTimeMillis

\* the constructor of BuildFinishedItem throws: both Long.fromValue calls
\* stand before the try block
BuildFinishedItemThrows(e, started) ==
    \/ LongFromValueThrows(e.finishTimeMillis)
    \/ LongFromValueThrows(StartTimeMillisOf(started))

\* end.sub(start)
TimeDelta(e, started) ==
    Millis(e.finishTimeMillis.millis - StartTimeMillisOf(started).millis)

\* mutant: the elapsed text is left out for a zero time delta, as a test
\* of a number would do
ElapsedFalsyZero(timeDelta) ==
    IF timeDelta = Undefined \/ timeDelta.millis = 0 THEN <<>>
    ELSE <<"(", timeDelta.millis, "ms)">>

\* `(${timeDelta.toString()}ms)` if (this.timeDelta): a Long object is
\* truthy whatever its value
Elapsed(timeDelta) ==
    IF timeDelta = Undefined THEN <<>>
    ELSE <<"(", timeDelta.millis, "ms)">>

\* `${exitCode?.name} ${elapsed}`
BuildFinishedLabel(e, timeDelta) ==
    [exitCode |-> e.exitCode, elapsed |-> Elapsed(timeDelta)]

BuildFinishedItem(type, e, started) ==
    [type |-> type, seq |-> e.seq, started |-> started,
     timeDelta |-> TimeDelta(e, started),
     label |-> BuildFinishedLabel(e, TimeDelta(e, started))]

BuildSuccessItem(e, started) == BuildFinishedItem("BuildSuccessItem", e, started)

BuildFailedItem(e, started) == BuildFinishedItem("BuildFailedItem", e, started)

\* the item keeps the event of its action; it is constructed expanded
ActionFailedItem(e) ==
    [type |-> "ActionFailedItem", seq |-> e.seq, action |-> e,
     collapsibleState |-> "Expanded"]

ActionSuccessItem(e) == [type |-> "ActionSuccessItem", seq |-> e.seq]

TestResultFailedItem(e) == [type |-> "TestResultFailedItem", seq |-> e.seq]

FileItem(seq, file) == [type |-> "FileItem", seq |-> seq, file |-> file]

FailureDetailItem(seq) == [type |-> "FailureDetailItem", seq |-> seq]

ProblemFileItem(seq, uri, markers) ==
    [type |-> "ProblemFileItem", seq |-> seq, uri |-> uri, markers |-> markers]

IsBuildFinishedItem(item) == item.type \in {"BuildSuccessItem", "BuildFailedItem"}

\* mutant: BuildStartedItem inherits the base class getter
attentionBaseForStarted(item) ==
    CASE item.type = "BuildSuccessItem" -> TRUE
      [] item.type = "BuildFailedItem" -> TRUE
      [] item.type = "ActionFailedItem" -> TRUE
      [] item.type = "TestResultFailedItem" -> TRUE
      [] item.type = "TargetCompleteItem" -> ~item.success
      [] OTHER -> FALSE

\* get attention(): the base class answers false, the subclasses override
attention(item) ==
    CASE item.type = "BuildStartedItem" -> TRUE
      [] item.type = "BuildSuccessItem" -> TRUE
      [] item.type = "BuildFailedItem" -> TRUE
      [] item.type = "ActionFailedItem" -> TRUE
      [] item.type = "TestResultFailedItem" -> TRUE
      [] item.type = "TargetCompleteItem" -> ~item.success
      [] OTHER -> FALSE

----------------------------------------------------------------------------
(* BuildEventState *)

NewBuildEventState ==
    [fileSets |-> EmptyMap, targetsConfigured |-> EmptyMap,
     workspaceInfo |-> Undefined, started |-> Undefined]

\* mutant: the set is stored under the id object, which no lookup by
\* id string finds
handleNamedSetOfFilesUnderIdObject(s, e) == s

handleNamedSetOfFiles(s, e) ==
    [s EXCEPT !.fileSets = MapSet(@, e.id, e.namedSetOfFiles)]

\* mutant: a label that is configured already keeps its first kind
handleTargetConfiguredFirstWins(s, e) ==
    IF e.label \in DOMAIN s.targetsConfigured THEN s
    ELSE [s EXCEPT !.targetsConfigured = MapSet(@, e.label, e.targetKind)]

handleTargetConfigured(s, e) ==
    [s EXCEPT !.targetsConfigured = MapSet(@, e.label, e.targetKind)]

\* mutant: reset that forgets fileSets.clear()
resetKeepsFileSets(s) ==
    [s EXCEPT !.workspaceInfo = Undefined, !.started = Undefined]

\* reset(): targetsConfigured is not cleared
reset(s) ==
    [s EXCEPT !.fileSets = EmptyMap,
              !.workspaceInfo = Undefined,
              !.started = Undefined]

getTargetKind(s, label) ==
    IF label \in DOMAIN s.targetsConfigured
    THEN s.targetsConfigured[label]
    ELSE UndefinedKind

\* mutant: an array in place of the Set
SetAddArrayPush(files, file) == Append(files, file)

\* Set<File>.add: insertion ordered, no duplicates
SetAdd(files, file) ==
    IF file \in Range(files) THEN files ELSE Append(files, file)

RECURSIVE SetAddAll(_, _)
SetAddAll(files, more) ==
    IF more = <<>> THEN files
    ELSE SetAddAll(SetAdd(files, Head(more)), Tail(more))

\* The accumulator of a collection: the Set<File> passed down the calls and
\* whether the call stack was exhausted (RangeError thrown and propagating)
NewFiles == [files |-> <<>>, thrown |-> FALSE]

RECURSIVE collectFilesFromFileSetIds(_, _, _, _)

\* mutant: no guard for a missing file set (TypeError on fileSet.files)
collectFilesFromFileSetNoGuard(fileSets, id, acc, depth) ==
    IF id \notin DOMAIN fileSets THEN [acc EXCEPT !.thrown = TRUE]
    ELSE collectFilesFromFileSetIds(
             fileSets, fileSets[id].fileSets,
             [acc EXCEPT !.files = SetAddAll(@, fileSets[id].files)], depth)

\* fileSet is this.fileSets.get(id.id), undefined for an id never stored
collectFilesFromFileSet(fileSets, id, acc, depth) ==
    IF id \notin DOMAIN fileSets THEN acc
    ELSE collectFilesFromFileSetIds(
             fileSets, fileSets[id].fileSets,
             [acc EXCEPT !.files = SetAddAll(@, fileSets[id].files)], depth)

collectFilesFromFileSetId(fileSets, id, acc, depth) ==
    collectFilesFromFileSet(fileSets, id, acc, depth + 1)

collectFilesFromFileSetIds(fileSets, ids, acc, depth) ==
    IF acc.thrown THEN acc
    ELSE IF depth > StackLimit THEN [acc EXCEPT !.thrown = TRUE]
    ELSE IF ids = <<>> THEN acc
    ELSE collectFilesFromFileSetIds(
             fileSets, Tail(ids),
             collectFilesFromFileSetId(fileSets, Head(ids), acc, depth), depth)

----------------------------------------------------------------------------
(* The text of an output file and the parts of common/ that read it *)

\* A file is a sequence of tokens: a line feed, an ANSI escape sequence,
\* or a run of printable text.
Newline == "\n"
Esc == "ESC[31m"
DiagX == "/${workspaceRoot}/x.cc:1:5: error: a"
DiagY == "/${workspaceRoot}/y.cc:2:7: error: b"
Note == "In file included from"

WorkspaceRootToken == "/${workspaceRoot}"

\* what the pattern of the registered matcher captures from a line
Captures ==
    [t \in {DiagX, DiagY} |->
        IF t = DiagX
        THEN [path |-> [root |-> WorkspaceRootToken, rel |-> "x.cc"],
              line |-> 1, column |-> 5, message |-> "a"]
        ELSE [path |-> [root |-> WorkspaceRootToken, rel |-> "y.cc"],
              line |-> 2, column |-> 7, message |-> "b"]]

\* the mnemonics a problem matcher is registered for
RegisteredTypes == {"CppCompile"}
ActionTypes == {"CppCompile", "Genrule"}

\* problemMatcherRegistry.get(type)
problemMatcherRegistryGet(type) ==
    IF type \in RegisteredTypes THEN [name |-> type] ELSE Undefined

RECURSIVE DecodeLines(_, _, _)
\* LineDecoder.write(data): the complete lines of data, and the partial
\* line left in the buffer
DecodeLines(data, line, lines) ==
    IF data = <<>> THEN [lines |-> lines, remaining |-> line]
    ELSE IF Head(data) = Newline
    THEN DecodeLines(Tail(data), <<>>, Append(lines, line))
    ELSE DecodeLines(Tail(data), Append(line, Head(data)), lines)

LineDecoderWrite(data) == DecodeLines(data, <<>>, <<>>).lines

\* LineDecoder.end(): the partial line, the empty string when there is none
LineDecoderEnd(data) == DecodeLines(data, <<>>, <<>>).remaining

\* strings.removeAnsiEscapeCodes(line)
removeAnsiEscapeCodes(line) == SelectSeq(line, LAMBDA t : t # Esc)

\* provideUri(path)
provideUri(pc, path) ==
    IF pc.started # Undefined
    THEN [path EXCEPT !.root = pc.started.workspaceDirectory]
    ELSE path

\* the matcher of a mnemonic after matcher.uriProvider =
\* this.provideUri.bind(this): the provider reads the collector it is bound to
Matcher(pc, type) == [name |-> type, uriProvider |-> pc]

\* the marker the matcher makes of a line, the resource through the
\* uriProvider of the matcher
IsProblemLine(line) == Len(line) = 1 /\ line[1] \in DOMAIN Captures

MarkerOf(line, matcher) ==
    LET c == Captures[line[1]]
    IN [resource |-> provideUri(matcher.uriProvider, c.path),
        startLineNumber |-> c.line, startColumn |-> c.column,
        message |-> c.message]

RECURSIVE CollectMarkers(_, _, _)
\* StartStopProblemCollector.processLine over the lines: the markers
\* found, per resource, in the order of the lines
CollectMarkers(lines, matcher, found) ==
    IF lines = <<>> THEN found
    ELSE LET line == Head(lines)
             m == MarkerOf(line, matcher)
         IN CollectMarkers(
                Tail(lines), matcher,
                IF ~IsProblemLine(line) THEN found
                ELSE IF m.resource \in DOMAIN found
                THEN [found EXCEPT ![m.resource] = Append(@, m)]
                ELSE MapSet(found, m.resource, <<m>>))

\* IMarkerService: set(resource, markers) for every resource of found
MarkerServiceSetAll(registry, found) ==
    [r \in (DOMAIN registry) \cup (DOMAIN found) |->
        IF r \in DOMAIN found THEN found[r] ELSE registry[r]]

\* IMarkerService.read({}): every marker held, grouped the way
\* parseProblems groups them by resource
MarkerServiceRead(registry) ==
    [r \in {x \in DOMAIN registry : registry[x] # <<>>} |-> registry[r]]

----------------------------------------------------------------------------
(* parseProblems *)

ProcessLineCalls(lines) ==
    [i \in 1..Len(lines) |->
        [call |-> "processLine", line |-> removeAnsiEscapeCodes(lines[i])]]

\* mutant: the partial line decoder.end() returns is not processed
parseProblemsWithoutEnd(matcher, data, markerService) ==
    LET calls == ProcessLineCalls(LineDecoderWrite(data))
        found == CollectMarkers([i \in 1..Len(calls) |-> calls[i].line],
                                matcher, EmptyMap)
        registry == MarkerServiceSetAll(markerService, found)
    IN [calls |-> calls \o <<[call |-> "done"], [call |-> "dispose"],
                             [call |-> "read"]>>,
        markerService |-> registry,
        byResource |-> MarkerServiceRead(registry)]

\* parseProblems(matcher, data, markerService): the calls it makes on the
\* collector and the marker service, the marker service after them and the
\* map it returns
parseProblems(matcher, data, markerService) ==
    LET end == LineDecoderEnd(data)
        lines == LineDecoderWrite(data) \o (IF end # <<>> THEN <<end>> ELSE <<>>)
        calls == ProcessLineCalls(lines)
        found == CollectMarkers([i \in 1..Len(calls) |-> calls[i].line],
                                matcher, EmptyMap)
        registry == MarkerServiceSetAll(markerService, found)
    IN [calls |-> calls \o <<[call |-> "done"], [call |-> "dispose"],
                             [call |-> "read"]>>,
        markerService |-> registry,
        byResource |-> MarkerServiceRead(registry)]

----------------------------------------------------------------------------
(* ProblemCollector *)

\* the files fs.readFileSync can read; any other URI throws
FileSystem ==
    [u \in {"file:///out/a.log", "file:///out/b.log"} |->
        IF u = "file:///out/a.log"
        THEN <<Esc, DiagX, Esc, Newline, Note, Newline, DiagX>>
        ELSE <<DiagY, Newline>>]

UnreadableUri == "file:///out/gone.log"

\* a File of an action: a URI, or inline contents; a field that is not
\* set tests false, as the empty string does
NoUri == ""
NoContents == <<>>
UriFile(uri) == [uri |-> uri, contents |-> NoContents]
ContentsFile(data) == [uri |-> NoUri, contents |-> data]

NewProblemCollector ==
    [started |-> Undefined, diagnostics |-> EmptyMap, markerService |-> EmptyMap]

\* recreateDiagnostics(): the collection is cleared, disposed and replaced
recreateDiagnostics(pc) == [pc EXCEPT !.diagnostics = EmptyMap]

\* clear(): the marker service is left as it is
problemCollectorClear(pc) == [recreateDiagnostics(pc) EXCEPT !.started = Undefined]

\* createDiagnosticFromMarker(marker): positions from 1-based to 0-based
createDiagnosticFromMarker(marker) ==
    [line |-> marker.startLineNumber - 1, character |-> marker.startColumn - 1,
     message |-> marker.message]

\* the outcome of a lookup of problems: the FileProblems returned (a map,
\* or undefined), or an error thrown, the collector after it, and what was
\* done on the way
Problems(pc, problems, thrown, calls) ==
    [problems |-> problems, undefined |-> FALSE, thrown |-> thrown, pc |-> pc,
     calls |-> calls, selected |-> "none"]

NoProblems(pc) == [Problems(pc, EmptyMap, FALSE, <<>>) EXCEPT !.undefined = TRUE]

\* fileContentProblems(type, matcher, contents)
fileContentProblems(pc, type, contents) == NoProblems(pc)

\* mutant: the diagnostics are recreated before the file is read
fileUriProblemsClearsFirst(pc, type, uri) ==
    IF uri \notin DOMAIN FileSystem
    THEN Problems(recreateDiagnostics(pc), EmptyMap, TRUE, <<>>)
    ELSE LET r == parseProblems(Matcher(pc, type),
                                FileSystem[uri], pc.markerService)
         IN Problems(
                [pc EXCEPT !.markerService = r.markerService,
                           !.diagnostics =
                               [u \in DOMAIN r.byResource |->
                                   [i \in 1..Len(r.byResource[u]) |->
                                       createDiagnosticFromMarker(r.byResource[u][i])]]],
                r.byResource, FALSE, r.calls)

\* fileUriProblems(type, matcher, uri)
fileUriProblems(pc, type, uri) ==
    IF uri \notin DOMAIN FileSystem
    THEN Problems(pc, EmptyMap, TRUE, <<>>)
    ELSE LET r == parseProblems(Matcher(pc, type),
                                FileSystem[uri], pc.markerService)
         IN Problems(
                [pc EXCEPT !.markerService = r.markerService,
                           !.diagnostics =
                               [u \in (DOMAIN @) \cup (DOMAIN r.byResource) |->
                                   IF u \in DOMAIN r.byResource
                                   THEN [i \in 1..Len(r.byResource[u]) |->
                                           createDiagnosticFromMarker(r.byResource[u][i])]
                                   ELSE @[u]]],
                r.byResource, FALSE, r.calls)

\* mutant: a file is parsed whether or not a matcher is registered
fileProblemsWithoutMatcherCheck(pc, type, file) ==
    IF file.contents # NoContents THEN fileContentProblems(pc, type, file.contents)
    ELSE IF file.uri # NoUri THEN fileUriProblems(pc, type, file.uri)
    ELSE NoProblems(pc)

\* fileProblems(type, file)
fileProblems(pc, type, file) ==
    IF problemMatcherRegistryGet(type) = Undefined THEN NoProblems(pc)
    ELSE IF file.contents # NoContents THEN fileContentProblems(pc, type, file.contents)
    ELSE IF file.uri # NoUri THEN fileUriProblems(pc, type, file.uri)
    ELSE NoProblems(pc)

\* mutant: stdout is looked at first
actionProblemsPrefersStdout(pc, action) ==
    IF action.success THEN NoProblems(pc)
    ELSE IF action.stdout # Undefined
    THEN [fileProblems(pc, action.type, action.stdout) EXCEPT !.selected = "stdout"]
    ELSE IF action.stderr # Undefined
    THEN [fileProblems(pc, action.type, action.stderr) EXCEPT !.selected = "stderr"]
    ELSE NoProblems(pc)

\* actionProblems(action)
actionProblems(pc, action) ==
    IF action.success THEN NoProblems(pc)
    ELSE IF action.stderr # Undefined
    THEN [fileProblems(pc, action.type, action.stderr) EXCEPT !.selected = "stderr"]
    ELSE IF action.stdout # Undefined
    THEN [fileProblems(pc, action.type, action.stdout) EXCEPT !.selected = "stdout"]
    ELSE NoProblems(pc)

----------------------------------------------------------------------------
(* TargetCompleteItem *)

NoOutputs == [resolved |-> FALSE, files |-> <<>>]

TargetCompleteItem(e, s) ==
    [type |-> "TargetCompleteItem", seq |-> e.seq,
     kind |-> getTargetKind(s, e.label),
     label |-> e.label,
     success |-> e.success,
     failureDetail |-> e.failureDetail,
     outputGroup |-> e.outputGroup,
     outputs |-> NoOutputs]

RECURSIVE collectOutputGroups(_, _, _)
\* for (const group of outputGroup) collectFilesFromFileSetIds(group.fileSets, files)
collectOutputGroups(fileSets, groups, acc) ==
    IF groups = <<>> \/ acc.thrown THEN acc
    ELSE collectOutputGroups(
             fileSets, Tail(groups),
             collectFilesFromFileSetIds(fileSets, Head(groups).fileSets, acc, 0))

FileItems(seq, files) == [i \in 1..Len(files) |-> FileItem(seq, files[i])]

\* mutant: the list of failure detail items without its push
getFailureDetailItemsNoPush(item) == <<>>

\* getFailureDetailItems(detail)
getFailureDetailItems(item) == <<FailureDetailItem(item.seq)>>

----------------------------------------------------------------------------
(* BuildEventProtocolView *)

addItem(its, item) == Append(its, item)

replaceLastItem(its, item) == [its EXCEPT ![Len(its)] = item]

\* the handler of e has run to its end, or (thrown) the promise it
\* returns is rejected
Settled(e, thrown) ==
    /\ sequenceNumber' = sequenceNumber + 1
    /\ last' = [op |-> "event", e |-> e, pre |-> items, preState |-> state,
                preTestsPassed |-> testsPassed,
                preCollector |-> problemCollector, thrown |-> thrown]

Handled(e) == Settled(e, FALSE)

Rejected(e) == Settled(e, TRUE)

\* mutant: clear() that forgets testsPassed.length = 0
clearKeepsTestsPassed ==
    [items |-> <<>>,
     testsPassed |-> testsPassed,
     state |-> reset(state),
     problemCollector |-> problemCollectorClear(problemCollector)]

\* clear(): the fields of the view after it
clear ==
    [items |-> <<>>,
     testsPassed |-> <<>>,
     state |-> reset(state),
     problemCollector |-> problemCollectorClear(problemCollector)]

handleStartedEvent(e) ==
    /\ items' = addItem(clear.items, BuildStartedItem(e))
    /\ testsPassed' = clear.testsPassed
    /\ state' = [clear.state EXCEPT !.started = e.started]
    /\ problemCollector' = [clear.problemCollector EXCEPT !.started = e.started]
    \* items.length = 0 takes the items out of the list, not out of the tree
    /\ detached' = items
    /\ Handled(e)

handleWorkspaceInfoEvent(e) ==
    /\ state' = [state EXCEPT !.workspaceInfo = e.workspaceInfo]
    /\ UNCHANGED <<items, testsPassed, problemCollector, detached>>
    /\ Handled(e)

handleCompletedEvent(e) ==
    /\ items' = addItem(items, TargetCompleteItem(e, state))
    /\ UNCHANGED <<testsPassed, state, problemCollector, detached>>
    /\ Handled(e)

\* mutant: the finished handler without the attention filter
handleFinishedEventNoFilter(e) ==
    /\ IF BuildFinishedItemThrows(e, state.started)
       THEN UNCHANGED items /\ Rejected(e)
       ELSE /\ items' = addItem(items,
                                IF e.overallSuccess
                                THEN BuildSuccessItem(e, state.started)
                                ELSE BuildFailedItem(e, state.started))
            /\ Handled(e)
    /\ UNCHANGED <<testsPassed, state, problemCollector, detached>>

\* the list is filtered before the item is constructed: when the
\* constructor throws the filtered list stays and nothing is appended
handleFinishedEvent(e) ==
    /\ IF BuildFinishedItemThrows(e, state.started)
       THEN items' = SelectSeq(items, attention) /\ Rejected(e)
       ELSE /\ items' = addItem(SelectSeq(items, attention),
                                IF e.overallSuccess
                                THEN BuildSuccessItem(e, state.started)
                                ELSE BuildFailedItem(e, state.started))
            /\ Handled(e)
    /\ UNCHANGED <<testsPassed, state, problemCollector, detached>>

handleNamedSetOfFilesEvent(e) ==
    /\ state' = handleNamedSetOfFiles(state, e)
    /\ UNCHANGED <<items, testsPassed, problemCollector, detached>>
    /\ Handled(e)

handleTargetConfiguredEvent(e) ==
    /\ state' = handleTargetConfigured(state, e)
    /\ UNCHANGED <<items, testsPassed, problemCollector, detached>>
    /\ Handled(e)

\* mutant: a successful action is always appended
handleActionExecutedEventSuccessAppends(e) ==
    /\ items' = addItem(items, ActionSuccessItem(e))
    /\ UNCHANGED <<testsPassed, state, problemCollector, detached>>
    /\ Handled(e)

handleActionExecutedEventSuccess(e) ==
    /\ items' = IF Len(items) > 0 /\ items[Len(items)].type = "ActionSuccessItem"
                THEN replaceLastItem(items, ActionSuccessItem(e))
                ELSE addItem(items, ActionSuccessItem(e))
    /\ UNCHANGED <<testsPassed, state, problemCollector, detached>>
    /\ Handled(e)

\* mutant: the problems of a failed action are looked up by its handler
handleActionExecutedEventEager(e) ==
    IF e.success
    THEN handleActionExecutedEventSuccess(e)
    ELSE /\ items' = addItem(items, ActionFailedItem(e))
         /\ problemCollector' =
                IF {"type", "stderr", "stdout"} \subseteq DOMAIN e
                THEN actionProblems(problemCollector, e).pc
                ELSE problemCollector
         /\ UNCHANGED <<testsPassed, state, detached>>
         /\ Handled(e)

handleActionExecutedEvent(e) ==
    IF e.success
    THEN handleActionExecutedEventSuccess(e)
    ELSE /\ items' = addItem(items, ActionFailedItem(e))
         /\ UNCHANGED <<testsPassed, state, problemCollector, detached>>
         /\ Handled(e)

\* mutant: the PASSED branch without its return
handleTestResultEventNoReturn(e) ==
    /\ testsPassed' = IF e.status = "PASSED" THEN Append(testsPassed, e.seq)
                      ELSE testsPassed
    /\ items' = addItem(items, TestResultFailedItem(e))
    /\ UNCHANGED <<state, problemCollector, detached>>
    /\ Handled(e)

\* mutant: every test result is pushed to testsPassed
handleTestResultEventCountsAll(e) ==
    /\ testsPassed' = Append(testsPassed, e.seq)
    /\ items' = IF e.status = "PASSED" THEN items
                ELSE addItem(items, TestResultFailedItem(e))
    /\ UNCHANGED <<state, problemCollector, detached>>
    /\ Handled(e)

handleTestResultEvent(e) ==
    /\ IF e.status = "PASSED"
       THEN /\ testsPassed' = Append(testsPassed, e.seq)
            /\ UNCHANGED items
       ELSE /\ items' = addItem(items, TestResultFailedItem(e))
            /\ UNCHANGED testsPassed
    /\ UNCHANGED <<state, problemCollector, detached>>
    /\ Handled(e)

\* switch (e.bes.payload)
handleBazelBuildEvent(e) ==
    /\ UNCHANGED <<lintVars, componentVars>>
    /\ CASE e.payload = "started" -> handleStartedEvent(e)
         [] e.payload = "workspaceInfo" -> handleWorkspaceInfoEvent(e)
         [] e.payload = "action" -> handleActionExecutedEvent(e)
         [] e.payload = "namedSetOfFiles" -> handleNamedSetOfFilesEvent(e)
         [] e.payload = "configured" -> handleTargetConfiguredEvent(e)
         [] e.payload = "completed" -> handleCompletedEvent(e)
         [] e.payload = "finished" -> handleFinishedEvent(e)
         [] e.payload = "testResult" -> handleTestResultEvent(e)
         [] OTHER ->
              /\ UNCHANGED <<items, testsPassed, state, problemCollector, detached>>
              /\ Handled(e)

\* TargetCompleteItem.getChildren() of the item at index i of the list
TargetCompleteItemGetChildren(i) ==
    LET item == items[i]
        acc == collectOutputGroups(state.fileSets, item.outputGroup, NewFiles)
    IN
    /\ item.type = "TargetCompleteItem"
    /\ IF item.failureDetail
       THEN /\ last' = [op |-> "getChildren", index |-> i, item |-> item,
                        thrown |-> FALSE,
                        children |-> getFailureDetailItems(item)]
            /\ UNCHANGED items
       ELSE IF item.outputs.resolved
       THEN /\ last' = [op |-> "getChildren", index |-> i, item |-> item,
                        thrown |-> FALSE,
                        children |-> FileItems(item.seq, item.outputs.files)]
            /\ UNCHANGED items
       ELSE IF acc.thrown
       \* this.outputs = [] was assigned before the collection threw
       THEN /\ last' = [op |-> "getChildren", index |-> i, item |-> item,
                        thrown |-> TRUE, children |-> <<>>]
            /\ items' = [items EXCEPT ![i].outputs =
                             [resolved |-> TRUE, files |-> <<>>]]
       ELSE /\ last' = [op |-> "getChildren", index |-> i, item |-> item,
                        thrown |-> FALSE,
                        children |-> FileItems(item.seq, acc.files)]
            /\ items' = [items EXCEPT ![i].outputs =
                             [resolved |-> TRUE, files |-> acc.files]]
    /\ UNCHANGED <<testsPassed, state, problemCollector, detached, sequenceNumber>>
    /\ UNCHANGED <<lintVars, componentVars>>

\* the orders in which a Map of problems may list its resources
Orders(S) == {o \in [1..Cardinality(S) -> S] : Range(o) = S}

\* ActionFailedItem.getChildren() of the item at index i of the list.
\* this.problems is written and never read: it is left out.
ActionFailedItemGetChildren(i) ==
    LET item == items[i]
        r == actionProblems(problemCollector, item.action)
        done(children) ==
            last' = [op |-> "actionChildren", index |-> i, item |-> item,
                     thrown |-> r.thrown, undefined |-> r.undefined,
                     children |-> children, selected |-> r.selected,
                     calls |-> r.calls, problems |-> r.problems,
                     pre |-> items, preState |-> state,
                     preCollector |-> problemCollector]
    IN
    /\ item.type = "ActionFailedItem"
    /\ problemCollector' = r.pc
    /\ IF r.thrown
       THEN done(<<>>) /\ UNCHANGED items
       ELSE IF r.undefined
       THEN /\ done(<<>>)
            /\ items' = [items EXCEPT ![i].collapsibleState = "None"]
       ELSE /\ \E o \in Orders(DOMAIN r.problems) :
                  done([k \in 1..Len(o) |->
                           ProblemFileItem(item.seq, o[k], r.problems[o[k]])])
            /\ UNCHANGED items
    /\ UNCHANGED <<testsPassed, state, detached, sequenceNumber>>
    /\ UNCHANGED <<lintVars, componentVars>>

\* TargetCompleteItem.getChildren() of an item of the build before, at
\* index i of the items the last clear() emptied from the list.  The item
\* holds the tracker of the view and reads the file sets it has now: no
\* session is compared.
TargetCompleteItemGetChildrenDetached(i) ==
    LET item == detached[i]
        acc == collectOutputGroups(state.fileSets, item.outputGroup, NewFiles)
        children == IF item.failureDetail THEN getFailureDetailItems(item)
                    ELSE IF item.outputs.resolved
                    THEN FileItems(item.seq, item.outputs.files)
                    ELSE IF acc.thrown THEN <<>>
                    ELSE FileItems(item.seq, acc.files)
    IN
    /\ item.type = "TargetCompleteItem"
    /\ last' = [op |-> "getChildrenDetached", index |-> i, item |-> item,
                thrown |-> ~item.failureDetail /\ ~item.outputs.resolved
                           /\ acc.thrown,
                children |-> children]
    /\ detached' = IF item.failureDetail \/ item.outputs.resolved THEN detached
                   ELSE [detached EXCEPT ![i].outputs =
                            [resolved |-> TRUE,
                             files |-> IF acc.thrown THEN <<>> ELSE acc.files]]
    /\ UNCHANGED <<items, testsPassed, state, problemCollector, sequenceNumber>>
    /\ UNCHANGED <<lintVars, componentVars>>

----------------------------------------------------------------------------
(* The events the transport delivers *)

StartedEventsAt(times) ==
    {[payload |-> "started", seq |-> sequenceNumber,
      started |-> [uuid |-> sequenceNumber, startTimeMillis |-> t,
                   workspaceDirectory |-> "/home/ws"]] :
        t \in times}

StartedEvents == StartedEventsAt(StartTimes)

WorkspaceInfoEvents ==
    {[payload |-> "workspaceInfo", seq |-> sequenceNumber,
      workspaceInfo |-> [localExecRoot |-> "/execroot"]]}

ActionEvents ==
    {[payload |-> "action", seq |-> sequenceNumber, success |-> ok] :
        ok \in BOOLEAN}

\* exitCode.name of a finished event
ExitCodeName(overallSuccess) == IF overallSuccess THEN "SUCCESS" ELSE "BUILD_FAILURE"

FinishedEventsAt(times) ==
    {[payload |-> "finished", seq |-> sequenceNumber, overallSuccess |-> ok,
      exitCode |-> ExitCodeName(ok), finishTimeMillis |-> t] :
        ok \in BOOLEAN, t \in times}

FinishedEvents == FinishedEventsAt(FinishTimes)

\* the output files an action event may name
StderrFiles ==
    {Undefined, UriFile("file:///out/a.log"), UriFile(UnreadableUri),
     ContentsFile(FileSystem["file:///out/a.log"])}
StdoutFiles == {Undefined, UriFile("file:///out/b.log")}

\* action events with their mnemonic and output files
ActionEventsWithOutput ==
    {[payload |-> "action", seq |-> sequenceNumber, success |-> ok,
      type |-> t, stderr |-> err, stdout |-> out] :
        ok \in BOOLEAN, t \in ActionTypes, err \in StderrFiles, out \in StdoutFiles}

TestResultEvents ==
    {[payload |-> "testResult", seq |-> sequenceNumber, status |-> st] :
        st \in {"PASSED", "FAILED"}}

UnknownEvents == {[payload |-> "progress", seq |-> sequenceNumber]}

ConfiguredEvents ==
    {[payload |-> "configured", seq |-> sequenceNumber,
      label |-> l, targetKind |-> k] : l \in Labels, k \in Kinds}

NamedSetOfFilesEvents(maxRefs) ==
    UNION {{[payload |-> "namedSetOfFiles", seq |-> sequenceNumber, id |-> id,
             namedSetOfFiles |-> NamedSetOfFiles(fl, refs)] :
                fl \in FileLists(id), refs \in SeqsUpTo(Ids, maxRefs)} :
           id \in Ids}

\* success with outputs, failure with a failure detail, failure without
CompletedOutcomes ==
    {[success |-> TRUE, failureDetail |-> FALSE],
     [success |-> FALSE, failureDetail |-> TRUE],
     [success |-> FALSE, failureDetail |-> FALSE]}

CompletedEvents(maxGroups) ==
    {[payload |-> "completed", seq |-> sequenceNumber, label |-> l,
      success |-> o.success, failureDetail |-> o.failureDetail,
      outputGroup |-> g] :
        l \in Labels, o \in CompletedOutcomes,
        g \in SeqsUpTo(OutputGroupsOf, maxGroups)}

----------------------------------------------------------------------------
(* The diagnostics manager of buildifier: lint runs on text changes *)

DIAGNOSTICS_ON_TYPE_DELAY_MILLIS == 500

\* the clock advances by half the delay
TickMillis == DIAGNOSTICS_ON_TYPE_DELAY_MILLIS \div 2

Documents == {"BUILD.bazel", "defs.bzl"}

\* let didChangeTextTimer: NodeJS.Timer | null, while it holds no timer
NoTimer == [due |-> 0, e |-> 0]

\* setTimeout(callback, delay) at the time now, for the change event e
setTimeout(pending, e, delay) ==
    LET t == [due |-> now + delay, e |-> e]
    IN [timer |-> t, timers |-> pending \cup {t}]

clearTimeout(pending, t) == pending \ {t}

\* a call of updateDiagnostics(document); the lint it awaits is not modelled
updateDiagnostics(cause, document, e) ==
    Append(lintRuns, [cause |-> cause, document |-> document, e |-> e,
                      at |-> now, seen |-> Len(changes)])

\* mutant: the timer of the change before is not cancelled
onDidChangeTextDocumentNoClear(document) ==
    LET e == Len(changes) + 1
        set == setTimeout(timers, e, DIAGNOSTICS_ON_TYPE_DELAY_MILLIS)
    IN /\ changes' = Append(changes, [document |-> document, at |-> now])
       /\ timers' = set.timers
       /\ didChangeTextTimer' = set.timer
       /\ UNCHANGED <<now, lintRuns>>

\* the listener of vscode.workspace.onDidChangeTextDocument
onDidChangeTextDocument(document) ==
    LET e == Len(changes) + 1
        cleared == IF didChangeTextTimer # NoTimer
                   THEN clearTimeout(timers, didChangeTextTimer)
                   ELSE timers
        set == setTimeout(cleared, e, DIAGNOSTICS_ON_TYPE_DELAY_MILLIS)
    IN /\ changes' = Append(changes, [document |-> document, at |-> now])
       /\ timers' = set.timers
       /\ didChangeTextTimer' = set.timer
       /\ UNCHANGED <<now, lintRuns>>

\* the callback of the timer t, which the event loop runs once t is due
didChangeTextTimerCallback(t) ==
    /\ t.due <= now
    /\ timers' = timers \ {t}
    /\ lintRuns' = updateDiagnostics("change", changes[t.e].document, t.e)
    /\ didChangeTextTimer' = NoTimer
    /\ UNCHANGED <<now, changes>>

\* the listener of vscode.window.onDidChangeActiveTextEditor
onDidChangeActiveTextEditor(e) ==
    /\ IF e = Undefined
       THEN UNCHANGED lintRuns
       ELSE lintRuns' = updateDiagnostics("editor", e.document, 0)
    /\ UNCHANGED <<didChangeTextTimer, timers, now, changes>>

\* the manager with no active editor when it was made
InitLintIdle ==
    /\ didChangeTextTimer = NoTimer
    /\ timers = {}
    /\ now = 0
    /\ changes = <<>>
    /\ lintRuns = <<>>

\* the manager after its constructor, which lints the active editor if
\* there is one
InitLintManager ==
    /\ didChangeTextTimer = NoTimer
    /\ timers = {}
    /\ now = 0
    /\ changes = <<>>
    /\ \E active \in {Undefined} \cup {[document |-> d] : d \in Documents} :
          lintRuns = IF active = Undefined THEN <<>>
                     ELSE <<[cause |-> "editor", document |-> active.document,
                             e |-> 0, at |-> 0, seen |-> 0]>>

----------------------------------------------------------------------------
(* BzlFeature: activation, the tryConnectServer run and dispose *)

\* the gRPC clients setupStackBuildActivity creates
AuthClient == "authClient"
LicenseClient == "licenseClient"
SubscriptionsClient == "subscriptionsClient"
PlansClient == "plansClient"

\* ConfigSection.LicenseToken of the configuration: unset or set
LicenseTokens == {"", "token"}

\* the calls f has counted for x
CallsOf(f, x) == IF x \in DOMAIN f THEN f[x] ELSE 0

Called(f, x) == MapSet(f, x, CallsOf(f, x) + 1)

RECURSIVE CallAll(_, _)
\* for (const x of list) { x.close() } or { x.dispose() }
CallAll(f, list) ==
    IF list = <<>> THEN f ELSE CallAll(Called(f, Head(list)), Tail(list))

\* new BzlFeature(api): the constructor adds the event emitter
NewBzlFeature ==
    [disposables |-> <<[type |-> "EventEmitter", name |-> "onDidBzlClientChange",
                        id |-> 1]>>,
     closeables |-> <<>>,
     registered |-> {[type |-> "EventEmitter", name |-> "onDidBzlClientChange",
                      id |-> 1]},
     created |-> {},
     nextId |-> 2,
     closed |-> EmptyMap,
     disposed |-> EmptyMap,
     disposes |-> 0,
     pc |-> "new",
     attempts |-> 0,
     ready |-> FALSE,
     metadata |-> FALSE,
     connects |-> 0,
     launched |-> 0,
     fired |-> <<>>,
     op |-> "new",
     prevOp |-> "new",
     closeCalls |-> 0,
     disposeCalls |-> 0]

\* this.disposables.push(disposable), of add() and of the views that take
\* the list
add(f, type, name) ==
    LET d == [type |-> type, name |-> name, id |-> f.nextId]
    IN [f EXCEPT !.disposables = Append(@, d),
                 !.registered = @ \cup {d},
                 !.nextId = @ + 1]

RECURSIVE addAll(_, _)
addAll(f, list) ==
    IF list = <<>> THEN f
    ELSE addAll(add(f, Head(list)[1], Head(list)[2]), Tail(list))

\* setupStackBuildActivity: the fourth push is of licenseClient again
setupStackBuildActivity(f) ==
    addAll([f EXCEPT !.closeables = @ \o <<AuthClient, LicenseClient,
                                            SubscriptionsClient, LicenseClient>>,
                     !.created = @ \cup {AuthClient, LicenseClient,
                                         SubscriptionsClient, PlansClient}],
           <<<<"BzlSignup", "signup">>, <<"BzlAccountView", "account">>>>)

\* the EmptyViews of activate() without a license token
ActivateEmptyViews ==
    <<<<"EmptyView", "Repository">>, <<"EmptyView", "Workspace">>,
      <<"EmptyView", "Package">>, <<"EmptyView", "History">>,
      <<"EmptyView", "BEP">>>>

\* the EmptyViews of deactivate()
DeactivateEmptyViews ==
    <<<<"EmptyView", "Repository">>, <<"EmptyView", "Workspace">>,
      <<"EmptyView", "Package">>, <<"EmptyView", "BEP">>,
      <<"EmptyView", "History">>, <<"EmptyView", "Account">>,
      <<"EmptyView", "Server">>>>

\* what setupBazelActivity registers before it connects
BazelActivityDisposables ==
    <<<<"BzlClient", "client">>, <<"BzlServerCommandRunner", "commandRunner">>,
      <<"BuildEventProtocolView", "BEP">>,
      <<"BzlRepositoryListView", "Repository">>,
      <<"BzlCommandHistoryView", "History">>,
      <<"BzlWorkspaceListView", "Workspace">>,
      <<"BzlPackageListView", "Package">>, <<"BzlServerView", "Server">>,
      <<"BzlHelp", "HelpRepository">>, <<"BzlHelp", "HelpWorkspace">>,
      <<"BzlHelp", "HelpPackage">>>>

\* mutant: one more attempt is allowed
tryConnectServerOneMore(f) ==
    IF f.attempts > 4
    THEN [f EXCEPT !.pc = "rejected"]
    ELSE [f EXCEPT !.pc = "waitForReady", !.connects = @ + 1,
                   !.ready = FALSE, !.metadata = FALSE]

\* tryConnectServer(cfg, attempts) up to its first await
tryConnectServer(f) ==
    IF f.attempts > 3
    THEN [f EXCEPT !.pc = "rejected"]
    ELSE [f EXCEPT !.pc = "waitForReady", !.connects = @ + 1,
                   !.ready = FALSE, !.metadata = FALSE]

\* startServer(cfg, attempts) up to its await of server.onReady()
startServer(f) ==
    [add(f, "BzlServerProcess", ToString(f.launched + 1))
        EXCEPT !.launched = @ + 1, !.pc = "onReady"]

\* catch (e) { return this.startServer(cfg, ++attempts) }
connectError(f) == startServer([f EXCEPT !.attempts = @ + 1])

\* this.onDidBzlClientChange.fire(this.client!)
fire(f) ==
    [f EXCEPT !.fired = Append(@, [attempts |-> f.attempts, ready |-> f.ready,
                                   metadata |-> f.metadata])]

\* mutant: the event is fired as soon as the client is ready
afterWaitForReadyFires(f, ok) ==
    IF ok THEN fire([f EXCEPT !.ready = TRUE, !.pc = "getMetadata"])
    ELSE connectError(f)

\* the continuation of await this.client!.waitForReady()
afterWaitForReady(f, ok) ==
    IF ok THEN [f EXCEPT !.ready = TRUE, !.pc = "getMetadata"]
    ELSE connectError(f)

\* the continuation of await this.client!.getMetadata()
afterGetMetadata(f, ok) ==
    IF ok THEN [fire([f EXCEPT !.metadata = TRUE]) EXCEPT !.pc = "connected"]
    ELSE connectError(f)

\* the continuation of await server.onReady(): a rejection of onReady
\* rejects the run
afterOnReady(f, ok) ==
    IF ok THEN tryConnectServer(f) ELSE [f EXCEPT !.pc = "rejected"]

\* setupBazelActivity(ctx, cfg)
setupBazelActivity(f) ==
    tryConnectServer(addAll(f, BazelActivityDisposables))

\* activate(ctx, config)
activate(f, token) ==
    LET g == setupStackBuildActivity(f)
    IN IF token = ""
       THEN [addAll(g, ActivateEmptyViews) EXCEPT !.pc = "idle"]
       ELSE setupBazelActivity(g)

\* dispose(): closeCalls and disposeCalls count the calls it made
dispose(f) ==
    [f EXCEPT !.closed = CallAll(@, f.closeables),
              !.closeCalls = Len(f.closeables),
              !.closeables = <<>>,
              !.disposed = CallAll(@, f.disposables),
              !.disposeCalls = Len(f.disposables),
              !.disposables = <<>>]

\* deactivate()
deactivate(f) == addAll(dispose(f), DeactivateEmptyViews)

Did(f, op) == feature' = [f EXCEPT !.op = op, !.prevOp = f.op]

Activate ==
    /\ feature.pc = "new"
    /\ \E token \in LicenseTokens : Did(activate(feature, token), "activate")
    /\ UNCHANGED <<viewVars, lintVars, dap, workspaces, signup>>
WaitForReadySettles ==
    /\ feature.pc = "waitForReady"
    /\ \E ok \in BOOLEAN : Did(afterWaitForReady(feature, ok), "waitForReady")
    /\ UNCHANGED <<viewVars, lintVars, dap, workspaces, signup>>
GetMetadataSettles ==
    /\ feature.pc = "getMetadata"
    /\ \E ok \in BOOLEAN : Did(afterGetMetadata(feature, ok), "getMetadata")
    /\ UNCHANGED <<viewVars, lintVars, dap, workspaces, signup>>
OnReadySettles ==
    /\ feature.pc = "onReady"
    /\ \E ok \in BOOLEAN : Did(afterOnReady(feature, ok), "onReady")
    /\ UNCHANGED <<viewVars, lintVars, dap, workspaces, signup>>
Dispose ==
    /\ feature.disposes < MaxDisposes
    /\ Did([dispose(feature) EXCEPT !.disposes = @ + 1], "dispose")
    /\ UNCHANGED <<viewVars, lintVars, dap, workspaces, signup>>
Deactivate ==
    /\ feature.disposes < MaxDisposes
    /\ Did([deactivate(feature) EXCEPT !.disposes = @ + 1], "deactivate")
    /\ UNCHANGED <<viewVars, lintVars, dap, workspaces, signup>>

InitFeatureIdle == feature = NewBzlFeature

----------------------------------------------------------------------------
(* DAPClient: the framing of the messages read from the stream *)

\* A Buffer is a sequence of tokens: the header name, the separator of
\* name and value, a decimal digit, a carriage return, a line feed, or a
\* byte of a message body.
CR == "\r"
ContentLengthName == "Content-Length"
ColonSpace == ": "
Digits == <<"0", "1", "2", "3", "4", "5", "6", "7", "8", "9">>
BodyBytes == {"a", "b"}

\* DAPClient.TWO_CRLF
TWO_CRLF == <<CR, Newline, CR, Newline>>

\* the result of + on what is no number: NaN >= 0 is false, as -1 >= 0 is
NaN == 0 - 1

DigitValue(t) == CHOOSE v \in 0..9 : Digits[v + 1] = t

IsDigit(t) == \E v \in 0..9 : Digits[v + 1] = t

RECURSIVE Decimal(_, _)
Decimal(text, acc) ==
    IF text = <<>> THEN acc
    ELSE Decimal(Tail(text), 10 * acc + DigitValue(Head(text)))

\* +pair[1]
ToNumber(text) ==
    IF text # <<>> /\ \A i \in 1..Len(text) : IsDigit(text[i])
    THEN Decimal(text, 0)
    ELSE IF text = <<>> THEN 0 ELSE NaN

\* Buffer.slice(start)
Slice(buffer, start) == SubSeq(buffer, start + 1, Len(buffer))

\* Buffer.indexOf(value): the first index value is found at, or -1
IndexOf(buffer, value) ==
    LET found == {i \in 0..(Len(buffer) - Len(value)) :
                     SubSeq(buffer, i + 1, i + Len(value)) = value}
    IN IF found = {} THEN 0 - 1
       ELSE CHOOSE i \in found : \A j \in found : i <= j

RECURSIVE Split(_, _)
\* String.split(separator)
Split(text, separator) ==
    LET idx == IndexOf(text, separator)
    IN IF idx = 0 - 1 THEN <<text>>
       ELSE <<SubSeq(text, 1, idx)>> \o Split(Slice(text, idx + Len(separator)), separator)

RECURSIVE HeaderContentLength(_, _)
\* for (const line of lines): the Content-Length of the last line that
\* names one, contentLength as it was when no line does
HeaderContentLength(lines, contentLength) ==
    IF lines = <<>> THEN contentLength
    ELSE LET pair == Split(Head(lines), <<ColonSpace>>)
         IN HeaderContentLength(
                Tail(lines),
                IF pair[1] = <<ContentLengthName>>
                THEN (IF Len(pair) >= 2 THEN ToNumber(pair[2]) ELSE NaN)
                ELSE contentLength)

\* new DAPClient()
NewDAPClient == [rawData |-> <<>>, contentLength |-> 0 - 1, dispatched |-> <<>>]

\* dispatch(body): the message is emitted
dispatch(d, body) == [d EXCEPT !.dispatched = Append(@, body)]

RECURSIVE handleDataLoop(_)
\* while (true) { ... } of handleData
handleDataLoop(d) ==
    IF d.contentLength >= 0
    THEN IF Len(d.rawData) >= d.contentLength
         THEN LET message == SubSeq(d.rawData, 1, d.contentLength)
                  e == [d EXCEPT !.rawData = Slice(@, d.contentLength),
                                 !.contentLength = 0 - 1]
              IN handleDataLoop(IF Len(message) > 0 THEN dispatch(e, message) ELSE e)
         ELSE d
    ELSE LET idx == IndexOf(d.rawData, TWO_CRLF)
         IN IF idx # 0 - 1
            THEN LET header == SubSeq(d.rawData, 1, idx)
                     lines == Split(header, <<CR, Newline>>)
                 IN handleDataLoop(
                        [d EXCEPT !.contentLength =
                                      HeaderContentLength(lines, d.contentLength),
                                  !.rawData = Slice(@, idx + Len(TWO_CRLF))])
            ELSE d

\* mutant: the bytes left over from the chunk before are dropped
handleDataWithoutConcat(d, data) == handleDataLoop([d EXCEPT !.rawData = data])

\* handleData(data)
handleData(d, data) == handleDataLoop([d EXCEPT !.rawData = @ \o data])

\* send(req) writes: the frame of a message body
Frame(body) ==
    <<ContentLengthName, ColonSpace, Digits[Len(body) + 1]>> \o TWO_CRLF \o body

RECURSIVE Frames(_)
Frames(bodies) ==
    IF bodies = <<>> THEN <<>> ELSE Frame(Head(bodies)) \o Frames(Tail(bodies))

\* the streams of well-formed framed messages
MessageBodies == SeqsUpTo(BodyBytes, MaxBodyLen)

InitDapIdle ==
    dap = [client |-> NewDAPClient, bodies |-> <<>>, stream |-> <<>>,
           splitHeader |-> FALSE, splitBody |-> FALSE]

\* readable.on('data', data => this.handleData(data)) for the next chunk
\* of the stream, of any length
Data ==
    /\ \E n \in 1..Len(dap.stream) :
          LET c == handleData(dap.client, SubSeq(dap.stream, 1, n))
          IN dap' = [dap EXCEPT
                        !.client = c,
                        !.stream = Slice(@, n),
                        !.splitHeader = @ \/ (c.contentLength < 0 /\ c.rawData # <<>>),
                        !.splitBody = @ \/ (c.contentLength >= 0 /\ c.rawData # <<>>)]
    /\ UNCHANGED <<viewVars, lintVars, feature, workspaces, signup>>

----------------------------------------------------------------------------
(* BzlWorkspaceListView: the current workspace, its external workspaces *)
(* and the selection of one of them                                      *)

\* the workspaces the repository list can make current
Workspaces == {[id |-> "A"], [id |-> "B"]}

\* the ids of the external workspaces of a workspace
ExternalIdsOf(workspace) ==
    IF workspace = [id |-> "A"] THEN <<"x", "y">> ELSE <<"x">>

\* resp.workspace of response n to a ListExternal request for workspace:
\* the objects of one response are not those of another
ExternalWorkspaces(workspace, n) ==
    [for |-> workspace,
     list |-> [i \in 1..Len(ExternalIdsOf(workspace)) |->
                  [id |-> ExternalIdsOf(workspace)[i], resp |-> n]]]

\* the labels of the items a select command may carry
SelectLabels == {"DEFAULT", "@x", "@y", "@none"}

\* label.slice(1)
LabelId(label) == IF label = "@x" THEN "x" ELSE IF label = "@y" THEN "y" ELSE "none"

\* new BzlWorkspaceListView(...)
NewBzlWorkspaceListView ==
    [client |-> FALSE,
     currentWorkspace |-> Undefined,
     externals |-> Undefined,
     currentExternalWorkspace |-> Undefined,
     calls |-> {},
     listCalls |-> 0,
     changes |-> 0,
     selects |-> 0,
     fired |-> <<>>,
     op |-> [name |-> "new"]]

\* setCurrentExternalWorkspace(ew): === compares the objects
setCurrentExternalWorkspace(v, ew) ==
    IF v.currentExternalWorkspace = ew THEN v
    ELSE [v EXCEPT !.currentExternalWorkspace = ew, !.fired = Append(@, ew)]

\* handleWorkspaceChanged(workspace)
handleWorkspaceChanged(v, workspace) ==
    setCurrentExternalWorkspace(
        [v EXCEPT !.currentWorkspace = workspace, !.externals = Undefined],
        Undefined)

\* getExternalWorkspaceById(id)
getExternalWorkspaceById(v, id) ==
    IF v.externals = Undefined THEN Undefined
    ELSE LET found == {i \in 1..Len(v.externals.list) : v.externals.list[i].id = id}
         IN IF found = {} THEN Undefined
            ELSE v.externals.list[CHOOSE i \in found : \A j \in found : i <= j]

\* handleCommandSelect(label); the vscode.open command it ends with
\* changes nothing of the view
handleCommandSelect(v, label) ==
    IF label = "DEFAULT" THEN setCurrentExternalWorkspace(v, Undefined)
    ELSE LET ew == getExternalWorkspaceById(v, LabelId(label))
         IN IF ew = v.currentExternalWorkspace THEN v
            ELSE setCurrentExternalWorkspace(v, ew)

\* listExternals() up to await clearContextGrpcStatusValue: the call
\* returns at once without a client, without a workspace or with a cache
listExternals(v) ==
    IF ~v.client \/ v.currentWorkspace = Undefined \/ v.externals # Undefined
    THEN v
    ELSE [v EXCEPT !.calls = @ \cup {[n |-> v.listCalls + 1, pc |-> "clearing",
                                      workspace |-> Undefined]}]

\* the continuation of await clearContextGrpcStatusValue of call c: the
\* request is made for the workspace that is current now
listExternalsRequest(v, c) ==
    [v EXCEPT !.externals = Undefined,
              !.calls = (@ \ {c}) \cup
                        {[c EXCEPT !.pc = "ListExternal",
                                   !.workspace = v.currentWorkspace]}]

\* the callback of ListExternal of call c: this.externals = resp?.workspace.
\* The await of setContextGrpcStatusValue before the assignment is part of
\* the time the response takes.
listExternalsResponse(v, c, ok) ==
    [v EXCEPT !.externals = IF ok /\ c.workspace # Undefined
                            THEN ExternalWorkspaces(c.workspace, c.n)
                            ELSE Undefined,
              !.calls = @ \ {c}]

DidWorkspaces(v, op) ==
    workspaces' = [v EXCEPT !.op = op]

ClientChanged ==
    /\ ~workspaces.client
    /\ DidWorkspaces([workspaces EXCEPT !.client = TRUE], [name |-> "client"])
    /\ UNCHANGED <<viewVars, lintVars, feature, dap, signup>>
WorkspaceChanged ==
    /\ workspaces.changes < MaxWorkspaceChanges
    /\ \E w \in Workspaces \cup {Undefined} :
          DidWorkspaces([handleWorkspaceChanged(workspaces, w)
                            EXCEPT !.changes = @ + 1],
                        [name |-> "workspaceChanged"])
    /\ UNCHANGED <<viewVars, lintVars, feature, dap, signup>>
Select ==
    /\ workspaces.selects < MaxSelects
    /\ \E label \in SelectLabels :
          DidWorkspaces([handleCommandSelect(workspaces, label)
                            EXCEPT !.selects = @ + 1],
                        [name |-> "select"])
    /\ UNCHANGED <<viewVars, lintVars, feature, dap, signup>>
GetRootItems ==
    /\ workspaces.listCalls < MaxListCalls
    /\ DidWorkspaces([listExternals(workspaces) EXCEPT !.listCalls = @ + 1],
                     [name |-> "getRootItems"])
    /\ UNCHANGED <<viewVars, lintVars, feature, dap, signup>>
ListExternalRequest ==
    /\ \E c \in workspaces.calls :
          /\ c.pc = "clearing"
          /\ DidWorkspaces(listExternalsRequest(workspaces, c),
                           [name |-> "request"])
    /\ UNCHANGED <<viewVars, lintVars, feature, dap, signup>>
ListExternalResponse ==
    /\ \E c \in workspaces.calls : \E ok \in BOOLEAN :
          /\ c.pc = "ListExternal"
          /\ DidWorkspaces(listExternalsResponse(workspaces, c, ok),
                           [name |-> "response"])
    /\ UNCHANGED <<viewVars, lintVars, feature, dap, signup>>

InitWorkspacesIdle == workspaces = NewBzlWorkspaceListView

----------------------------------------------------------------------------
(* BzlGetStarted: the signup wizard.  The panel shows what the last       *)
(* render drew, and the buttons, cards and form of that render are the    *)
(* ones the user can press; they resolve the promise of the invocation    *)
(* that rendered them, which goes on with its own jwt, plan and card.     *)
(* The flows are calls on the servers: each settles by calling one of     *)
(* the callbacks it was constructed with, or fails.                       *)

\* what a login can answer: a token, or the empty string
Jwts == {"", "jwt"}
NoPlans == [undefined |-> TRUE, list |-> <<>>]
Plans(list) == [undefined |-> FALSE, list |-> list]
\* the lists of plans the ListPlans call can answer
PlanLists == {<<>>, <<"pro">>, <<"free", "pro">>}
NoPlan == [undefined |-> TRUE, id |-> ""]
Plan(id) == [undefined |-> FALSE, id |-> id]
NoCard == [undefined |-> TRUE, number |-> ""]
Card(number) == [undefined |-> FALSE, number |-> number]
\* the card numbers typed into the form, the empty field among them
CardNumbers == {"", "4242"}
NoFormdata == "undefined"
Formdata == CardNumbers \cup {NoFormdata}

\* a panel that has rendered nothing yet
NoPanel ==
    [activeTab |-> "", jwt |-> "", plans |-> <<>>, plan |-> NoPlan,
     card |-> NoCard]

NewBzlGetStarted ==
    [jwt |-> "", plans |-> NoPlans, selectedPlan |-> NoPlan,
     selectedCard |-> NoCard, selectedAuthMethod |-> "", wasDisposed |-> FALSE,
     panel |-> NoPanel, flows |-> {}, requests |-> <<>>, commands |-> 0,
     op |-> [name |-> "new"]]

\* this.panel.render(...): the tab drawn, and the values the callbacks of
\* this render close over
render(g, activeTab, jwt, plans, plan, card) ==
    [g EXCEPT !.panel = [activeTab |-> activeTab, jwt |-> jwt, plans |-> plans,
                         plan |-> plan, card |-> card]]

\* new XFlow(...).get(): the call is in progress
get(g, flow, jwt) == [g EXCEPT !.flows = @ \cup {[flow |-> flow, jwt |-> jwt]}]
settled(g, f) == [g EXCEPT !.flows = @ \ {f}]

getStarted(g) == render(g, "get-started", "", <<>>, NoPlan, NoCard)

signupGithub(g) == render(g, "github-auth", "", <<>>, NoPlan, NoCard)

tryRenewLicense(g, jwt) ==
    IF jwt = "" THEN getStarted(g)
    ELSE get(render(g, "checking", jwt, <<>>, NoPlan, NoCard),
             "RenewLicenseFlow", jwt)

tryGithubOauth(g) ==
    LET h == [g EXCEPT !.selectedAuthMethod = "github-auth"] IN
    IF h.jwt = "" THEN get(h, "GitHubOAuthFlow", "")
    ELSE tryRenewLicense(h, h.jwt)

\* the rest of tryGithubOauth when getJwt() has settled
afterGetJwt(g, ok, jwt) ==
    IF ok THEN tryRenewLicense([g EXCEPT !.jwt = jwt], jwt) ELSE g

tryLogin(g) == render(g, "email-auth", "", <<>>, NoPlan, NoCard)

\* the form of tryLogin is submitted
loginOnsubmit(g, formdata) ==
    IF ~formdata THEN g
    ELSE get([g EXCEPT !.selectedAuthMethod = "email-auth"], "EmailAuthFlow", "")

\* the rest of tryLogin when emailAuth.login() has settled
afterLogin(g, ok, jwt) ==
    IF ok THEN LET h == [g EXCEPT !.jwt = jwt] IN tryRenewLicense(h, h.jwt)
    ELSE tryLogin(g)

tryListPlans(g, jwt) ==
    IF jwt = "" THEN getStarted(g) ELSE get(g, "ListPlansFlow", jwt)

trySelectPlan(g, jwt, plans) ==
    IF jwt = "" THEN getStarted(g)
    ELSE IF plans.undefined THEN tryListPlans(g, jwt)
    ELSE render(g, "select-plan", jwt, plans.list, NoPlan, NoCard)

\* the callback tryListPlans hands to ListPlansFlow
onPlans(g, jwt, plans) == trySelectPlan([g EXCEPT !.plans = plans], jwt, plans)

tryCollectPaymentDetails(g, jwt, plan) ==
    IF jwt = "" THEN getStarted(g)
    ELSE IF plan.undefined THEN trySelectPlan(g, jwt, g.plans)
    ELSE render(g, "payment", jwt, <<>>, plan, NoCard)

\* a card of the plan list is pressed: the rest of trySelectPlan
planOnclick(g, plan) ==
    tryCollectPaymentDetails([g EXCEPT !.selectedPlan = plan], g.panel.jwt, plan)

\* tryConfirm without the check of the card
tryConfirmWithoutCardCheck(g, jwt, plan, card) ==
    IF jwt = "" THEN getStarted(g)
    ELSE IF plan.undefined THEN trySelectPlan(g, jwt, g.plans)
    ELSE render(g, "confirm", jwt, <<>>, plan, card)

tryConfirm(g, jwt, plan, card) ==
    IF jwt = "" THEN getStarted(g)
    ELSE IF plan.undefined THEN trySelectPlan(g, jwt, g.plans)
    ELSE IF card.undefined THEN tryCollectPaymentDetails(g, jwt, plan)
    ELSE render(g, "confirm", jwt, <<>>, plan, card)

\* the payment form is submitted: the rest of tryCollectPaymentDetails
paymentOnsubmit(g, formdata) ==
    IF formdata = NoFormdata THEN g
    ELSE LET card == Card(formdata) IN
         tryConfirm([g EXCEPT !.selectedCard = card], g.panel.jwt,
                    g.panel.plan, card)

handleCommandSignupStart(g, hasLicenseFile) ==
    IF ~hasLicenseFile THEN getStarted(g)
    ELSE render(g, "autoconf", "", <<>>, NoPlan, NoCard)

\* the CreateSubscriptionRequest of tryConfirm and the jwt it is sent with;
\* `pressed` records that the Subscribe button resolved the promise
CreateSubscriptionRequest(jwt, plan, card, pressed) ==
    [jwt |-> jwt, planId |-> plan.id, plan |-> plan, card |-> card,
     paymentSource |-> card.number, pressed |-> pressed]

\* the rest of tryConfirm when the promise of the Subscribe button resolved
afterConfirmed(g, confirmed, pressed, hasLicenseFile) ==
    IF ~confirmed THEN handleCommandSignupStart(g, hasLicenseFile)
    ELSE get([g EXCEPT !.requests =
                 Append(@, CreateSubscriptionRequest(g.panel.jwt, g.panel.plan,
                                                     g.panel.card, pressed))],
             "CreateSubscriptionFlow", g.panel.jwt)

\* Subscribe is pressed: resolve(true)
subscribeOnclick(g, hasLicenseFile) == afterConfirmed(g, TRUE, TRUE, hasLicenseFile)

saveToken(g) == render(g, "success", "", <<>>, NoPlan, NoCard)

\* Activate is pressed on the success page: finish() disposes the wizard
finish(g) == [g EXCEPT !.wasDisposed = TRUE]

\* the commands the wizard registers, called without arguments: the
\* parameters take their defaults from the fields
SignupCommands ==
    {"feature.bzl.signup.getStarted", "feature.bzl.signup.github",
     "feature.bzl.signup.github.oauth", "feature.bzl.signup.login",
     "feature.bzl.signup.plan", "feature.bzl.signup.payment",
     "feature.bzl.signup.confirm"}

executeCommand(g, command) ==
    CASE command = "feature.bzl.signup.getStarted" -> getStarted(g)
      [] command = "feature.bzl.signup.github" -> signupGithub(g)
      [] command = "feature.bzl.signup.github.oauth" -> tryGithubOauth(g)
      [] command = "feature.bzl.signup.login" -> tryLogin(g)
      [] command = "feature.bzl.signup.plan" -> trySelectPlan(g, g.jwt, g.plans)
      [] command = "feature.bzl.signup.payment" ->
            tryCollectPaymentDetails(g, g.jwt, g.selectedPlan)
      [] command = "feature.bzl.signup.confirm" ->
            tryConfirm(g, g.jwt, g.selectedPlan, g.selectedCard)

\* the fields as an operation found them
FieldsOf(g) ==
    [jwt |-> g.jwt, plans |-> g.plans, selectedPlan |-> g.selectedPlan,
     selectedCard |-> g.selectedCard]

DidSignup(g, name, command) ==
    signup' = [g EXCEPT !.op = [name |-> name, command |-> command,
                                before |-> FieldsOf(signup)]]

Command ==
    /\ ~signup.wasDisposed
    /\ signup.commands < MaxCommands
    /\ \E command \in SignupCommands :
          DidSignup(executeCommand([signup EXCEPT !.commands = @ + 1], command),
                    "command", command)
    /\ UNCHANGED <<viewVars, lintVars, feature, dap, workspaces>>
LoginSubmit ==
    /\ ~signup.wasDisposed
    /\ signup.panel.activeTab = "email-auth"
    /\ \E formdata \in BOOLEAN :
          DidSignup(loginOnsubmit(signup, formdata), "loginOnsubmit", "")
    /\ UNCHANGED <<viewVars, lintVars, feature, dap, workspaces>>
AuthSettles ==
    /\ ~signup.wasDisposed
    /\ \E f \in signup.flows : \E ok \in BOOLEAN : \E jwt \in Jwts :
          /\ f.flow \in {"GitHubOAuthFlow", "EmailAuthFlow"}
          /\ IF f.flow = "GitHubOAuthFlow"
             THEN DidSignup(afterGetJwt(settled(signup, f), ok, jwt),
                            "afterGetJwt", "")
             ELSE DidSignup(afterLogin(settled(signup, f), ok, jwt),
                            "afterLogin", "")
    /\ UNCHANGED <<viewVars, lintVars, feature, dap, workspaces>>
RenewLicenseSettles ==
    /\ ~signup.wasDisposed
    /\ \E f \in signup.flows : \E outcome \in {"plans", "license", "fails"} :
          /\ f.flow = "RenewLicenseFlow"
          /\ DidSignup(CASE outcome = "plans" ->
                              tryListPlans(settled(signup, f), f.jwt)
                         [] outcome = "license" -> saveToken(settled(signup, f))
                         [] outcome = "fails" -> settled(signup, f),
                       "RenewLicenseFlow", outcome)
    /\ UNCHANGED <<viewVars, lintVars, feature, dap, workspaces>>
ListPlansSettles ==
    /\ ~signup.wasDisposed
    /\ \E f \in signup.flows : \E ok \in BOOLEAN : \E list \in PlanLists :
          /\ f.flow = "ListPlansFlow"
          /\ DidSignup(IF ok THEN onPlans(settled(signup, f), f.jwt, Plans(list))
                       ELSE settled(signup, f),
                       "ListPlansFlow", "")
    /\ UNCHANGED <<viewVars, lintVars, feature, dap, workspaces>>
PlanClicked ==
    /\ ~signup.wasDisposed
    /\ signup.panel.activeTab = "select-plan"
    /\ \E i \in 1..Len(signup.panel.plans) :
          DidSignup(planOnclick(signup, Plan(signup.panel.plans[i])),
                    "planOnclick", "")
    /\ UNCHANGED <<viewVars, lintVars, feature, dap, workspaces>>
PaymentSubmit ==
    /\ ~signup.wasDisposed
    /\ signup.panel.activeTab = "payment"
    /\ \E formdata \in Formdata :
          DidSignup(paymentOnsubmit(signup, formdata), "paymentOnsubmit", "")
    /\ UNCHANGED <<viewVars, lintVars, feature, dap, workspaces>>
SubscribeClicked ==
    /\ ~signup.wasDisposed
    /\ signup.panel.activeTab = "confirm"
    /\ Len(signup.requests) < MaxSubscriptions
    /\ \E hasLicenseFile \in BOOLEAN :
          DidSignup(subscribeOnclick(signup, hasLicenseFile),
                    "subscribeOnclick", "")
    /\ UNCHANGED <<viewVars, lintVars, feature, dap, workspaces>>
CreateSubscriptionSettles ==
    /\ ~signup.wasDisposed
    /\ \E f \in signup.flows :
          /\ f.flow = "CreateSubscriptionFlow"
          /\ DidSignup(tryRenewLicense(settled(signup, f), f.jwt),
                       "CreateSubscriptionFlow", "")
    /\ UNCHANGED <<viewVars, lintVars, feature, dap, workspaces>>
ActivateClicked ==
    /\ ~signup.wasDisposed
    /\ signup.panel.activeTab = "success"
    /\ DidSignup(finish(signup), "finish", "")
    /\ UNCHANGED <<viewVars, lintVars, feature, dap, workspaces>>

InitSignupIdle == signup = NewBzlGetStarted

\* the components as they are constructed
InitComponents ==
    InitFeatureIdle /\ InitDapIdle /\ InitWorkspacesIdle /\ InitSignupIdle

----------------------------------------------------------------------------
(* Specification of the view: every kind of event, in any order *)

Init ==
    /\ items = <<>>
    /\ testsPassed = <<>>
    /\ state = NewBuildEventState
    /\ problemCollector = NewProblemCollector
    /\ detached = <<>>
    /\ sequenceNumber = 0
    /\ last = [op |-> "init"]
    /\ InitLintIdle
    /\ InitComponents

\* the transport still has events to deliver
Pending(max) == sequenceNumber < max

\* The item list does not read the cross-reference payloads: under Spec the
\* file sets carry no nested references and a completed event at most one
\* output group.
Started == Pending(MaxEvents) /\ \E e \in StartedEvents : handleBazelBuildEvent(e)
WorkspaceInfo ==
    Pending(MaxEvents) /\ \E e \in WorkspaceInfoEvents : handleBazelBuildEvent(e)
Action == Pending(MaxEvents) /\ \E e \in ActionEvents : handleBazelBuildEvent(e)
Finished == Pending(MaxEvents) /\ \E e \in FinishedEvents : handleBazelBuildEvent(e)
TestResult ==
    Pending(MaxEvents) /\ \E e \in TestResultEvents : handleBazelBuildEvent(e)
Unknown == Pending(MaxEvents) /\ \E e \in UnknownEvents : handleBazelBuildEvent(e)
Configured ==
    Pending(MaxEvents) /\ \E e \in ConfiguredEvents : handleBazelBuildEvent(e)
NamedSet ==
    Pending(MaxEvents) /\ \E e \in NamedSetOfFilesEvents(0) : handleBazelBuildEvent(e)
Completed ==
    Pending(MaxEvents) /\ \E e \in CompletedEvents(1) : handleBazelBuildEvent(e)
GetChildren == \E i \in 1..Len(items) : TargetCompleteItemGetChildren(i)
GetChildrenDetached ==
    \E i \in 1..Len(detached) : TargetCompleteItemGetChildrenDetached(i)

Next ==
    \/ Started
    \/ WorkspaceInfo
    \/ Action
    \/ Finished
    \/ TestResult
    \/ Unknown
    \/ Configured
    \/ NamedSet
    \/ Completed
    \/ GetChildren
    \/ GetChildrenDetached

Spec == Init /\ [][Next]_vars

----------------------------------------------------------------------------
(* Specification of the tracker: the events that read or write the        *)
(* cross-reference maps, with nested file sets and several output groups  *)

TrackerStarted ==
    Pending(MaxTrackerEvents) /\ \E e \in StartedEvents : handleBazelBuildEvent(e)
TrackerNamedSet ==
    /\ Pending(MaxTrackerEvents)
    /\ \E e \in NamedSetOfFilesEvents(MaxEventFileSets) : handleBazelBuildEvent(e)
TrackerCompleted ==
    /\ Pending(MaxTrackerEvents)
    /\ \E e \in CompletedEvents(MaxOutputGroups) : handleBazelBuildEvent(e)

NextTracker ==
    \/ TrackerStarted
    \/ TrackerNamedSet
    \/ TrackerCompleted
    \/ GetChildren

SpecTracker == Init /\ [][NextTracker]_vars

----------------------------------------------------------------------------
(* Specification of the problems of actions: started and action events   *)
(* with their output files, and the children of the failed actions        *)

ProblemsStarted ==
    /\ Pending(MaxProblemEvents)
    /\ \E e \in StartedEventsAt({Millis(1000)}) : handleBazelBuildEvent(e)
ProblemsAction ==
    /\ Pending(MaxProblemEvents)
    /\ \E e \in ActionEventsWithOutput : handleBazelBuildEvent(e)
ProblemsGetChildren == \E i \in 1..Len(items) : ActionFailedItemGetChildren(i)

NextProblems ==
    \/ ProblemsStarted
    \/ ProblemsAction
    \/ ProblemsGetChildren

SpecProblems == Init /\ [][NextProblems]_vars

----------------------------------------------------------------------------
(* Specification of parseProblems as a function of the data               *)

DataTokens == {Newline, Esc, DiagX, Note}

InitParse ==
    /\ items = <<>>
    /\ testsPassed = <<>>
    /\ state = NewBuildEventState
    /\ problemCollector = NewProblemCollector
    /\ detached = <<>>
    /\ sequenceNumber = 0
    /\ \E data \in SeqsUpTo(DataTokens, MaxDataLen) :
          last = [op |-> "data", data |-> data]
    /\ InitLintIdle
    /\ InitComponents

Parse ==
    LET r == parseProblems(Matcher(problemCollector, "CppCompile"),
                           last.data, problemCollector.markerService)
    IN /\ last' = [op |-> "parseProblems", data |-> last.data,
                   calls |-> r.calls, byResource |-> r.byResource]
       /\ UNCHANGED <<items, testsPassed, state, problemCollector, detached,
                      sequenceNumber>>
       /\ UNCHANGED <<lintVars, componentVars>>

NextParse == Parse

SpecParse == InitParse /\ [][NextParse]_vars

----------------------------------------------------------------------------
(* Specification of the elapsed time: started and finished events with    *)
(* every combination of absent, equal, later and earlier timestamps       *)

ElapsedStarted ==
    /\ Pending(MaxEvents)
    /\ \E e \in StartedEventsAt(ElapsedTimes) : handleBazelBuildEvent(e)
ElapsedFinished ==
    /\ Pending(MaxEvents)
    /\ \E e \in FinishedEventsAt(ElapsedTimes) : handleBazelBuildEvent(e)

NextElapsed ==
    \/ ElapsedStarted
    \/ ElapsedFinished

SpecElapsed == Init /\ [][NextElapsed]_vars

----------------------------------------------------------------------------
(* Specification of collectFilesFromFileSetIds as a function of the       *)
(* file-set map: the map is any map namedSetOfFiles events can build      *)

FileSetMaps ==
    UNION {[D -> {NamedSetOfFiles(<<>>, refs) :
                    refs \in SeqsUpTo(Ids, MaxNestedFileSets)}] :
           D \in SUBSET Ids}

InitCollect ==
    /\ items = <<>>
    /\ testsPassed = <<>>
    /\ \E m \in FileSetMaps : \E n \in [DOMAIN m -> {0, 2}] :
          state = [NewBuildEventState EXCEPT !.fileSets =
                      [id \in DOMAIN m |->
                          NamedSetOfFiles(FilesOf(id, n[id]), m[id].fileSets)]]
    /\ problemCollector = NewProblemCollector
    /\ detached = <<>>
    /\ sequenceNumber = 0
    /\ last = [op |-> "init"]
    /\ InitLintIdle
    /\ InitComponents

Collect ==
    \E ids \in SeqsUpTo(Ids, MaxCollectIds) :
        LET acc == collectFilesFromFileSetIds(state.fileSets, ids, NewFiles, 0)
        IN /\ last' = [op |-> "collect", ids |-> ids,
                       thrown |-> acc.thrown, files |-> acc.files]
           /\ UNCHANGED <<items, testsPassed, state, problemCollector,
                          detached, sequenceNumber>>
           /\ UNCHANGED <<lintVars, componentVars>>

NextCollect == Collect

SpecCollect == InitCollect /\ [][NextCollect]_vars

----------------------------------------------------------------------------
(* Specification of the lint runs: text changes, changes of the active    *)
(* editor, the clock and the timers of the event loop                     *)

InitLint ==
    /\ items = <<>>
    /\ testsPassed = <<>>
    /\ state = NewBuildEventState
    /\ problemCollector = NewProblemCollector
    /\ detached = <<>>
    /\ sequenceNumber = 0
    /\ last = [op |-> "init"]
    /\ InitLintManager
    /\ InitComponents

EditorRuns == SelectSeq(lintRuns, LAMBDA r : r.cause = "editor")

ChangeText ==
    /\ Len(changes) < MaxChanges
    /\ \E d \in Documents : onDidChangeTextDocument(d)
    /\ UNCHANGED <<viewVars, componentVars>>
TimerFires ==
    /\ \E t \in timers : didChangeTextTimerCallback(t)
    /\ UNCHANGED <<viewVars, componentVars>>
ChangeEditor ==
    /\ Len(EditorRuns) < MaxEditorChanges
    /\ \E e \in {Undefined} \cup {[document |-> d] : d \in Documents} :
          onDidChangeActiveTextEditor(e)
    /\ UNCHANGED <<viewVars, componentVars>>
Tick ==
    /\ now < MaxTicks * TickMillis
    /\ now' = now + TickMillis
    /\ UNCHANGED <<didChangeTextTimer, timers, changes, lintRuns>>
    /\ UNCHANGED <<viewVars, componentVars>>

NextLint ==
    \/ ChangeText
    \/ TimerFires
    \/ ChangeEditor
    \/ Tick

SpecLint == InitLint /\ [][NextLint]_vars

----------------------------------------------------------------------------
(* Specification of BzlFeature: one activation, the run of                *)
(* tryConnectServer and startServer that follows, dispose and deactivate  *)

InitViewIdle ==
    /\ items = <<>>
    /\ testsPassed = <<>>
    /\ state = NewBuildEventState
    /\ problemCollector = NewProblemCollector
    /\ detached = <<>>
    /\ sequenceNumber = 0
    /\ last = [op |-> "init"]

InitFeature ==
    /\ InitViewIdle
    /\ InitLintIdle
    /\ InitComponents

NextFeature ==
    \/ Activate
    \/ WaitForReadySettles
    \/ GetMetadataSettles
    \/ OnReadySettles
    \/ Dispose
    \/ Deactivate

SpecFeature == InitFeature /\ [][NextFeature]_vars

\* every waitForReady, getMetadata and onReady call settles
SpecFeatureFair ==
    /\ SpecFeature
    /\ WF_vars(WaitForReadySettles)
    /\ WF_vars(GetMetadataSettles)
    /\ WF_vars(OnReadySettles)

----------------------------------------------------------------------------
(* Specification of the DAP client: a stream of framed messages, read in  *)
(* chunks of any length                                                   *)

InitDap ==
    /\ InitViewIdle
    /\ InitLintIdle
    /\ InitFeatureIdle
    /\ InitWorkspacesIdle
    /\ InitSignupIdle
    /\ \E bodies \in SeqsUpTo(MessageBodies, MaxMessages) :
          dap = [client |-> NewDAPClient, bodies |-> bodies,
                 stream |-> Frames(bodies), splitHeader |-> FALSE,
                 splitBody |-> FALSE]

NextDap == Data

SpecDap == InitDap /\ [][NextDap]_vars

----------------------------------------------------------------------------
(* Specification of the workspace list view: changes of the client and   *)
(* of the workspace, select commands, and listExternals calls with their *)
(* requests and responses in any order                                    *)

InitWorkspaces ==
    /\ InitViewIdle
    /\ InitLintIdle
    /\ InitComponents

NextWorkspaces ==
    \/ ClientChanged
    \/ WorkspaceChanged
    \/ Select
    \/ GetRootItems
    \/ ListExternalRequest
    \/ ListExternalResponse

SpecWorkspaces == InitWorkspaces /\ [][NextWorkspaces]_vars

----------------------------------------------------------------------------
(* Specification of the signup wizard: its commands, the buttons and     *)
(* forms of the page it shows, and the flows settling, in any order       *)

InitSignup ==
    /\ InitViewIdle
    /\ InitLintIdle
    /\ InitComponents

NextSignup ==
    \/ Command
    \/ LoginSubmit
    \/ AuthSettles
    \/ RenewLicenseSettles
    \/ ListPlansSettles
    \/ PlanClicked
    \/ PaymentSubmit
    \/ SubscribeClicked
    \/ CreateSubscriptionSettles
    \/ ActivateClicked

SpecSignup == InitSignup /\ [][NextSignup]_vars

----------------------------------------------------------------------------
(* Properties of the item list *)

AfterEvent(payload) == last.op = "event" /\ last.e.payload = payload

LastOf(its) == its[Len(its)]

EndsWithActionSuccess(its) ==
    Len(its) > 0 /\ LastOf(its).type = "ActionSuccessItem"

NoAdjacentActionSuccess ==
    \A i \in 1..(Len(items) - 1) :
        ~(items[i].type = "ActionSuccessItem" /\ items[i + 1].type = "ActionSuccessItem")

\* C1: the list never holds two adjacent ActionSuccessItem entries; a
\* successful action arriving when the last item is an ActionSuccessItem
\* replaces that item in place (same length), otherwise it is appended.
C1_CollapseConsecutiveSuccess ==
    /\ NoAdjacentActionSuccess
    /\ (AfterEvent("action") /\ last.e.success) =>
          IF EndsWithActionSuccess(last.pre)
          THEN /\ Len(items) = Len(last.pre)
               /\ items = [last.pre EXCEPT ![Len(last.pre)] = ActionSuccessItem(last.e)]
          ELSE items = Append(last.pre, ActionSuccessItem(last.e))

\* a successful action has just replaced the ActionSuccessItem before it
C1_Witness ==
    /\ AfterEvent("action") /\ last.e.success
    /\ EndsWithActionSuccess(last.pre)
    /\ LastOf(items).seq = last.e.seq

\* C2: immediately after a finished event every item of the list has
\* attention=true; no ActionSuccessItem and no successful
\* TargetCompleteItem is left.
C2_OnlyAttentionAfterFinished ==
    AfterEvent("finished") =>
        \A i \in 1..Len(items) :
            /\ attention(items[i])
            /\ items[i].type # "ActionSuccessItem"
            /\ ~(items[i].type = "TargetCompleteItem" /\ items[i].success)

\* a finished event has pruned an ActionSuccessItem and a successful target
C2_Witness ==
    /\ AfterEvent("finished")
    /\ \E i \in 1..Len(last.pre) : last.pre[i].type = "ActionSuccessItem"
    /\ \E i \in 1..Len(last.pre) :
          last.pre[i].type = "TargetCompleteItem" /\ last.pre[i].success

HasStartedAndTerminalFinished ==
    /\ \E i \in 1..Len(items) :
          items[i].type = "BuildStartedItem" /\ attention(items[i])
    /\ Len(items) > 0
    /\ IsBuildFinishedItem(LastOf(items))
    /\ attention(LastOf(items))

\* C3: after any finished event, whatever preceded it, the list holds a
\* BuildStartedItem and a terminal BuildFinishedItem, both with
\* attention=true.
C3_Original == AfterEvent("finished") => HasStartedAndTerminalFinished

\* C4: within a build session the list holds exactly one BuildStartedItem,
\* the first item, and at most one BuildFinishedItem, which is the last
\* item: nothing is placed after it until the next started event.
C4_OneStartedOneFinished ==
    state.started # Undefined =>
        /\ Len(items) > 0
        /\ \A i \in 1..Len(items) : items[i].type = "BuildStartedItem" <=> i = 1
        /\ \A i \in 1..Len(items) : IsBuildFinishedItem(items[i]) => i = Len(items)

----------------------------------------------------------------------------
(* Properties of the tracker *)

\* the file sets a set of ids leads to, by the references alone
Refs(fileSets, id) ==
    IF id \in DOMAIN fileSets THEN Range(fileSets[id].fileSets) ELSE {}

RECURSIVE Closure(_, _)
Closure(fileSets, S) ==
    LET T == S \cup UNION {Refs(fileSets, id) : id \in S}
    IN IF T = S THEN S ELSE Closure(fileSets, T)

ReachableFiles(fileSets, S) ==
    UNION {Range(fileSets[id].files) : id \in Closure(fileSets, S) \cap DOMAIN fileSets}

Cyclic(fileSets, S) ==
    \E id \in Closure(fileSets, S) : id \in Closure(fileSets, Refs(fileSets, id))

GroupIds(groups) == UNION {Range(groups[i].fileSets) : i \in 1..Len(groups)}

Reverse(seq) == [i \in 1..Len(seq) |-> seq[Len(seq) + 1 - i]]

\* getChildren has just resolved the outputs of a target without failure detail
ResolvedOutputs ==
    /\ last.op = "getChildren"
    /\ ~last.item.failureDetail
    /\ ~last.item.outputs.resolved

\* C5: a namedSetOfFiles event registers its set under its id; with set A
\* registered with files f1 and f2 and a completed event (no failure
\* detail) whose output groups name A, getChildren yields exactly the
\* FileItems of f1 and f2; in general, for registered sets without nested
\* references, exactly one FileItem per file of the named sets, whatever
\* the order of the ids.
C5_RoundTripFileChildren ==
    LET ids == GroupIds(last.item.outputGroup)
        files == UNION {Range(state.fileSets[id].files) : id \in ids}
    IN
    /\ AfterEvent("namedSetOfFiles") =>
          /\ last.e.id \in DOMAIN state.fileSets
          /\ state.fileSets[last.e.id] = last.e.namedSetOfFiles
    /\ (/\ ResolvedOutputs
        /\ \A id \in ids : id \in DOMAIN state.fileSets
                           /\ state.fileSets[id].fileSets = <<>>) =>
          /\ ~last.thrown
          /\ Range(last.children) = {FileItem(last.item.seq, f) : f \in files}
          /\ Len(last.children) = Cardinality(files)
          /\ Range(collectOutputGroups(state.fileSets,
                                       Reverse(last.item.outputGroup),
                                       NewFiles).files) = files
          /\ ("A" \in ids /\ Len(state.fileSets["A"].files) = 2) =>
                 \A n \in Range(FileNames) :
                     FileItem(last.item.seq, File("A", n)) \in Range(last.children)

\* set A = {f1, f2} is registered and the children of a target that names
\* only A are resolved: two FileItems
C5_Witness ==
    /\ ResolvedOutputs
    /\ last.item.outputGroup = <<[fileSets |-> <<"A">>]>>
    /\ "A" \in DOMAIN state.fileSets
    /\ state.fileSets["A"] = NamedSetOfFiles(FilesOf("A", 2), <<>>)
    /\ Len(last.children) = 2

\* C6: after a started event no file-set id and no target label of the
\* previous build resolves: the file-set map and the target-configured map
\* are empty and the workspace metadata is cleared.
C6_ResetClearsMaps ==
    AfterEvent("started") =>
        /\ state.fileSets = EmptyMap
        /\ state.workspaceInfo = Undefined
        /\ \A id \in Ids :
              collectFilesFromFileSetIds(state.fileSets, <<id>>, NewFiles, 0).files = <<>>
        /\ \A l \in Labels : getTargetKind(state, l) = UndefinedKind
        /\ state.targetsConfigured = EmptyMap

\* the started event just handled directly follows another started event
ConsecutiveStarted ==
    /\ AfterEvent("started")
    /\ last.pre = <<BuildStartedItem([seq |-> last.e.seq - 1])>>

WithoutStarted(s) == [s EXCEPT !.started = Undefined]

\* C7: reset is idempotent: reset applied to a reset tracker changes
\* nothing, the fields reset clears are empty afterwards, and the tracker
\* after two consecutive started events equals, apart from the started
\* metadata stored by the event, the tracker after the first.
C7_ResetIdempotent ==
    /\ reset(reset(state)) = reset(state)
    /\ reset(state).fileSets = EmptyMap
    /\ reset(state).workspaceInfo = Undefined
    /\ reset(state).started = Undefined
    /\ AfterEvent("started") =>
          /\ WithoutStarted(state) = reset(last.preState)
          /\ state.started = last.e.started
    /\ ConsecutiveStarted => WithoutStarted(state) = WithoutStarted(last.preState)

\* two started events in a row, after an earlier event
C7_Witness ==
    /\ ConsecutiveStarted
    /\ last.e.seq >= 2

\* C8: a completed event naming a file-set id that was never registered
\* resolves to no file children for that id and raises no error; the ids
\* registered alongside it still contribute their files.
C8_MissingFileSetTolerated ==
    LET ids == GroupIds(last.item.outputGroup)
    IN (ResolvedOutputs /\ \E id \in ids : id \notin DOMAIN state.fileSets) =>
          /\ (\A id \in ids : id \notin DOMAIN state.fileSets) =>
                 (~last.thrown /\ last.children = <<>>)
          /\ ~Cyclic(state.fileSets, ids) => ~last.thrown
          /\ ~last.thrown =>
                 Range(last.children) =
                     {FileItem(last.item.seq, f) :
                         f \in ReachableFiles(state.fileSets, ids)}

\* a target naming a registered set with files and an unregistered id
C8_Witness ==
    /\ ResolvedOutputs
    /\ \E id \in GroupIds(last.item.outputGroup) : id \notin DOMAIN state.fileSets
    /\ \E id \in GroupIds(last.item.outputGroup) : id \in DOMAIN state.fileSets
    /\ Len(last.children) = 2
    /\ ~last.thrown

----------------------------------------------------------------------------
(* Properties of collectFilesFromFileSetIds *)

\* C9: collectFilesFromFileSetIds returns for every content of the
\* file-set map, cyclic references included: the call stack is never
\* exhausted.
C9_CollectTerminates == last.op = "collect" => ~last.thrown

\* C10: for an acyclic file-set map collectFilesFromFileSetIds(ids) returns
\* exactly the File records of the sets reachable from ids, each once.
C10_CollectReachableFilesOnce ==
    (last.op = "collect" /\ ~Cyclic(state.fileSets, Range(last.ids))) =>
        /\ ~last.thrown
        /\ Range(last.files) = ReachableFiles(state.fileSets, Range(last.ids))
        /\ Len(last.files) = Cardinality(Range(last.files))

\* set B, holding files, is reached directly and through A
C10_Witness ==
    /\ last.op = "collect"
    /\ ~Cyclic(state.fileSets, Range(last.ids))
    /\ last.ids = <<"A", "B">>
    /\ DOMAIN state.fileSets = {"A", "B"}
    /\ "B" \in Range(state.fileSets["A"].fileSets)
    /\ Len(state.fileSets["B"].files) = 2
    /\ Len(last.files) = 4

----------------------------------------------------------------------------
(* Properties of the sessions, the handlers and the finished item *)

\* C11: the lazy children of an item of build N that are resolved only
\* after the started event of build N+1 are discarded: no file of the
\* tracker state of build N+1 is resolved for them.
C11_StaleChildrenDiscarded ==
    (last.op = "getChildrenDetached" /\ ~last.item.outputs.resolved) =>
        \A i \in 1..Len(last.children) : last.children[i].type # "FileItem"

\* C12: no event handler raises or rejects, whatever optional sub-fields
\* the event lacks.
C12_NoHandlerRaises == last.op = "event" => ~last.thrown

\* the timestamps a finished event just handled was constructed from
StartOfLast == StartTimeMillisOf(last.preState.started)
FinishOfLast == last.e.finishTimeMillis
BothTimestamps ==
    AfterEvent("finished") /\ StartOfLast # Undefined /\ FinishOfLast # Undefined

\* C13: for every pair of present timestamps, equal ones included, the
\* label of the BuildFinishedItem holds "(<finish - start>ms)": start 1000
\* and finish 2500 give "(1500ms)".
C13_ElapsedInLabel ==
    BothTimestamps =>
        /\ ~last.thrown
        /\ IsBuildFinishedItem(LastOf(items))
        /\ LastOf(items).seq = last.e.seq
        /\ LastOf(items).label.elapsed =
               <<"(", FinishOfLast.millis - StartOfLast.millis, "ms)">>
        /\ (StartOfLast = Millis(1000) /\ FinishOfLast = Millis(2500)) =>
               LastOf(items).label.elapsed = <<"(", 1500, "ms)">>

\* a build started at 1000 has finished at 2500
C13_Witness ==
    /\ BothTimestamps
    /\ StartOfLast = Millis(1000)
    /\ FinishOfLast = Millis(2500)
    /\ LastOf(items).label = [exitCode |-> last.e.exitCode,
                              elapsed |-> <<"(", 1500, "ms)">>]

\* C14: a finished event whose start timestamp (no started event, or one
\* without startTimeMillis) or finish timestamp is missing is handled
\* without failure: the BuildFinishedItem is appended, its label without
\* the elapsed parenthetical.
C14_MissingTimestampTolerated ==
    (AfterEvent("finished") /\ ~BothTimestamps) =>
        /\ ~last.thrown
        /\ Len(items) > 0
        /\ IsBuildFinishedItem(LastOf(items))
        /\ LastOf(items).seq = last.e.seq
        /\ LastOf(items).label.elapsed = <<>>

\* the items the claims name as attention=true
IsAttentionItem(item) ==
    \/ item.type \in {"BuildStartedItem", "ActionFailedItem", "TestResultFailedItem",
                      "BuildSuccessItem", "BuildFailedItem"}
    \/ item.type = "TargetCompleteItem" /\ ~item.success

IsPrefix(s, t) == Len(s) <= Len(t) /\ SubSeq(t, 1, Len(s)) = s

\* C15: through every event but a started one the attention=true items of
\* the list stay, in their order, before any item the event adds; the
\* items an event replaces or prunes are non-attention items.
C15_AttentionItemsStay ==
    (last.op = "event" /\ last.e.payload # "started") =>
        /\ IsPrefix(SelectSeq(last.pre, IsAttentionItem),
                    SelectSeq(items, IsAttentionItem))
        /\ \A i \in 1..Len(last.pre) :
              last.pre[i] \notin Range(items) => ~IsAttentionItem(last.pre[i])

\* a finished event has kept the attention items of a list from which it
\* pruned another item
C15_Witness ==
    /\ AfterEvent("finished")
    /\ Len(SelectSeq(last.pre, IsAttentionItem)) >= 1
    /\ Len(last.pre) > Len(SelectSeq(last.pre, IsAttentionItem))
    /\ Len(items) >= Len(SelectSeq(last.pre, IsAttentionItem))

\* C16: immediately after a started event the list is the BuildStartedItem
\* of that event alone, no passed test is held, and the started metadata
\* of the tracker and of the problem collector are the payload of the event.
C16_StartedResetsView ==
    AfterEvent("started") =>
        /\ items = <<BuildStartedItem(last.e)>>
        /\ testsPassed = <<>>
        /\ state.started = last.e.started
        /\ problemCollector.started = last.e.started

\* a started event arrived with items in the list and a passed test held
C16_Witness ==
    /\ AfterEvent("started")
    /\ Len(last.pre) >= 1
    /\ Len(last.preTestsPassed) >= 1

\* the events that are not to touch the item list
LeavesItemsAlone(e) ==
    \/ e.payload \in {"workspaceInfo", "namedSetOfFiles", "configured"}
    \/ e.payload = "testResult" /\ e.status = "PASSED"
    \/ e.payload \notin {"started", "workspaceInfo", "action", "namedSetOfFiles",
                         "configured", "completed", "finished", "testResult"}

\* C17: workspaceInfo, namedSetOfFiles, configured, testResult PASSED and
\* every unknown payload leave the item list unchanged; an unknown payload
\* leaves the tracker unchanged too and raises nothing.
C17_ItemListUntouched ==
    (last.op = "event" /\ LeavesItemsAlone(last.e)) =>
        /\ items = last.pre
        /\ AfterEvent("progress") =>
              /\ state = last.preState
              /\ testsPassed = last.preTestsPassed
              /\ ~last.thrown

\* an unknown payload arrived with an item in the list and a file set
\* registered
C17_Witness ==
    /\ AfterEvent("progress")
    /\ Len(last.pre) >= 1
    /\ state.fileSets # EmptyMap

\* C18: a testResult PASSED raises the count of passed tests by one and
\* adds no item; any other status appends one TestResultFailedItem, with
\* attention=true, and leaves the count.
C18_TestResultCounted ==
    AfterEvent("testResult") =>
        IF last.e.status = "PASSED"
        THEN /\ Len(testsPassed) = Len(last.preTestsPassed) + 1
             /\ items = last.pre
        ELSE /\ items = Append(last.pre, TestResultFailedItem(last.e))
             /\ attention(LastOf(items))
             /\ testsPassed = last.preTestsPassed

\* a failed test arrived after a passed one
C18_Witness ==
    /\ AfterEvent("testResult")
    /\ last.e.status = "FAILED"
    /\ Len(last.preTestsPassed) >= 1
    /\ LastOf(items).type = "TestResultFailedItem"

\* C19: after a finished event the last item is a BuildSuccessItem when
\* overallSuccess is true and a BuildFailedItem otherwise, and the event
\* appended exactly one item.
C19_FinishedAppendsOutcome ==
    AfterEvent("finished") =>
        /\ Len(items) = Len(SelectSeq(last.pre, attention)) + 1
        /\ LastOf(items).seq = last.e.seq
        /\ LastOf(items).type =
               IF last.e.overallSuccess THEN "BuildSuccessItem" ELSE "BuildFailedItem"

\* C20: getTargetKind is the kind of the most recent configured event
\* handled for the label and undefined when none was handled: only a
\* configured event changes it, to its kind, for its label; a completed
\* event is labelled with the kind recorded before it arrived.
C20_TargetKindLastWrite ==
    /\ sequenceNumber = 0 => \A l \in Labels : getTargetKind(state, l) = UndefinedKind
    /\ AfterEvent("configured") =>
          /\ getTargetKind(state, last.e.label) = last.e.targetKind
          /\ \A l \in Labels \ {last.e.label} :
                getTargetKind(state, l) = getTargetKind(last.preState, l)
    /\ (last.op = "event" /\ last.e.payload # "configured") =>
          \A l \in Labels : getTargetKind(state, l) = getTargetKind(last.preState, l)
    /\ AfterEvent("completed") =>
          /\ LastOf(items).kind = getTargetKind(last.preState, last.e.label)
          /\ last.e.label \notin DOMAIN last.preState.targetsConfigured =>
                LastOf(items).kind = UndefinedKind

\* a configured event has overwritten the kind of its label
C20_Witness ==
    /\ AfterEvent("configured")
    /\ last.e.label \in DOMAIN last.preState.targetsConfigured
    /\ last.preState.targetsConfigured[last.e.label] # last.e.targetKind
    /\ getTargetKind(state, last.e.label) = last.e.targetKind

----------------------------------------------------------------------------
(* Properties of the children of the items *)

\* C21: the children of a TargetCompleteItem are, with a failure detail,
\* exactly one FailureDetailItem and no file item; without one, exactly
\* the FileItems of the files resolved from the output groups of the
\* event; the two kinds never appear together.
C21_DetailOrOutputs ==
    last.op = "getChildren" =>
        /\ last.item.failureDetail =>
              last.children = <<FailureDetailItem(last.item.seq)>>
        /\ ~last.item.failureDetail =>
              /\ \A i \in 1..Len(last.children) : last.children[i].type = "FileItem"
              /\ last.children = FileItems(last.item.seq, items[last.index].outputs.files)
              /\ (~last.item.outputs.resolved /\ ~last.thrown) =>
                    {last.children[i].file : i \in 1..Len(last.children)} =
                        ReachableFiles(state.fileSets, GroupIds(last.item.outputGroup))
        /\ ~(/\ \E i \in 1..Len(last.children) : last.children[i].type = "FileItem"
             /\ \E i \in 1..Len(last.children) :
                   last.children[i].type = "FailureDetailItem")

\* the children of a failed target with a failure detail, whose output
\* group names a registered set with files, are resolved
C21_Witness ==
    /\ last.op = "getChildren"
    /\ last.item.failureDetail
    /\ ~last.item.success
    /\ \E id \in GroupIds(last.item.outputGroup) :
          id \in DOMAIN state.fileSets /\ state.fileSets[id].files # <<>>
    /\ Len(last.children) = 1

----------------------------------------------------------------------------
(* Properties of the problems of failed actions *)

\* the file actionProblems is to hand to fileProblems
SelectedFile(action) ==
    IF action.stderr # Undefined THEN action.stderr ELSE action.stdout

\* the text tokens the collector was handed, in the order of the calls
RECURSIVE Flatten(_)
Flatten(lines) == IF lines = <<>> THEN <<>> ELSE Head(lines) \o Flatten(Tail(lines))

ProcessLineCallsOf(calls) == SelectSeq(calls, LAMBDA c : c.call = "processLine")

ProcessedText(calls) ==
    LET pl == ProcessLineCallsOf(calls)
    IN Flatten([i \in 1..Len(pl) |-> pl[i].line])

TextOf(data) == SelectSeq(data, LAMBDA t : t \notin {Newline, Esc})

\* the children of a failed action have just been asked for
AfterActionChildren == last.op = "actionChildren"

\* C22: handling a failed action event appends its ActionFailedItem to the
\* list without running the problem matcher or reading a file: no event
\* handler changes the markers or publishes diagnostics, which happens only
\* when the children of the item are asked for.
C22_FailedActionVisibleAtOnce ==
    /\ (AfterEvent("action") /\ ~last.e.success) =>
          /\ items = Append(last.pre, ActionFailedItem(last.e))
          /\ problemCollector = last.preCollector
          /\ ~last.thrown
    /\ last.op = "event" =>
          /\ problemCollector.markerService = last.preCollector.markerService
          /\ \A u \in DOMAIN problemCollector.diagnostics :
                /\ u \in DOMAIN last.preCollector.diagnostics
                /\ problemCollector.diagnostics[u] = last.preCollector.diagnostics[u]

\* a failed action whose stderr file is readable and whose mnemonic has a
\* matcher has been handled, and nothing was parsed yet
C22_Witness ==
    /\ AfterEvent("action")
    /\ ~last.e.success
    /\ last.e.type \in RegisteredTypes
    /\ last.e.stderr = UriFile("file:///out/a.log")
    /\ LastOf(items).seq = last.e.seq
    /\ problemCollector.markerService = EmptyMap

\* C23: the problems of a failed action are parsed from its stderr file
\* whenever it has one and from its stdout file only when it has no stderr
\* file, never from both; a successful action yields no problems.
C23_StderrPreferred ==
    /\ AfterActionChildren =>
          LET a == last.item.action
          IN /\ last.selected = IF a.stderr # Undefined THEN "stderr"
                                ELSE IF a.stdout # Undefined THEN "stdout"
                                ELSE "none"
             /\ last.calls # <<>> =>
                   /\ SelectedFile(a).uri \in DOMAIN FileSystem
                   /\ ProcessedText(last.calls) = TextOf(FileSystem[SelectedFile(a).uri])
    /\ \A e \in ActionEventsWithOutput :
          e.success =>
              /\ actionProblems(problemCollector, e).undefined
              /\ actionProblems(problemCollector, e).calls = <<>>
              /\ actionProblems(problemCollector, e).pc = problemCollector

\* the children of a failed action with both a stderr and a stdout file
\* are resolved: the text of stderr is parsed
C23_Witness ==
    /\ AfterActionChildren
    /\ last.item.action.stderr = UriFile("file:///out/a.log")
    /\ last.item.action.stdout = UriFile("file:///out/b.log")
    /\ last.calls # <<>>
    /\ ProcessedText(last.calls) = <<DiagX, Note, DiagX>>

\* C24: for a failed action whose mnemonic has a registered matcher the
\* children are resolved by running the matcher over the text of the
\* selected file, whether the file carries inline contents or a URI, one
\* ProblemFileItem per resource with markers.
C24_MatcherRunsOnContentsAndUri ==
    LET f == SelectedFile(last.item.action)
        text == IF f.contents # NoContents THEN f.contents ELSE FileSystem[f.uri]
    IN (/\ AfterActionChildren
        /\ last.item.action.type \in RegisteredTypes
        /\ f # Undefined
        /\ f.contents # NoContents \/ f.uri \in DOMAIN FileSystem) =>
          /\ ~last.thrown
          /\ ProcessedText(last.calls) = TextOf(text)
          /\ Len(last.children) >= 1
          /\ \A i \in 1..Len(last.children) :
                last.children[i].type = "ProblemFileItem"

\* C25: with no matcher registered for the mnemonic of a failed action,
\* resolving its children yields none, makes the item a leaf
\* (collapsibleState None), publishes no diagnostics and raises no error;
\* the item stays in the list.
C25_NoMatcherNoChildren ==
    (AfterActionChildren /\ last.item.action.type \notin RegisteredTypes) =>
        /\ ~last.thrown
        /\ last.undefined
        /\ last.children = <<>>
        /\ last.calls = <<>>
        /\ items = [last.pre EXCEPT ![last.index].collapsibleState = "None"]
        /\ items[last.index].seq = last.item.seq
        /\ problemCollector = last.preCollector

\* the children of a failed action without a matcher, whose stderr file
\* is readable, were asked for
C25_Witness ==
    /\ AfterActionChildren
    /\ last.item.action.type \notin RegisteredTypes
    /\ last.item.action.stderr = UriFile("file:///out/a.log")
    /\ items[last.index].collapsibleState = "None"

\* C26: a file that cannot be read rejects the resolution of the children
\* of the item that asked for it and nothing else: the item list, the
\* tracker and the collector with its published diagnostics are unchanged.
C26_ReadFailureIsLocal ==
    (AfterActionChildren /\ last.thrown) =>
        /\ items = last.pre
        /\ state = last.preState
        /\ problemCollector = last.preCollector
        /\ last.children = <<>>

\* reading the file of an item failed after the diagnostics of another
\* item were published
C26_Witness ==
    /\ AfterActionChildren
    /\ last.thrown
    /\ last.item.action.stderr = UriFile(UnreadableUri)
    /\ problemCollector.diagnostics # EmptyMap
    /\ Len(items) >= 2

\* C27: handling a started event empties the marker registry of the
\* problem collector: a read in the new build returns no marker of an
\* earlier build.
C27_StartedEmptiesRegistry ==
    AfterEvent("started") =>
        /\ MarkerServiceRead(problemCollector.markerService) = EmptyMap
        /\ problemCollector.markerService = EmptyMap

\* C30: the problems returned for a failed action hold only the markers
\* made by parsing the output file of that action, whatever children were
\* resolved before.
C30_OnlyOwnMarkers ==
    (AfterActionChildren /\ last.calls # <<>>) =>
        last.problems =
            parseProblems(Matcher(last.preCollector, last.item.action.type),
                          FileSystem[SelectedFile(last.item.action).uri],
                          EmptyMap).byResource

----------------------------------------------------------------------------
(* Properties of parseProblems *)

CountOf(data, t) == Len(SelectSeq(data, LAMBDA x : x = t))

\* C28: parseProblems hands every line of the data to the collector once
\* and in order, without its ANSI escape sequences, a last unterminated
\* line included when it is not empty; done() follows the last line,
\* dispose() follows done(), and the markers are read after both.
C28_LinesInOrderThenDone ==
    last.op = "parseProblems" =>
        LET calls == last.calls
            n == Len(calls)
            pl == ProcessLineCallsOf(calls)
            unterminated == last.data # <<>> /\ last.data[Len(last.data)] # Newline
        IN /\ n >= 3
           /\ calls[n - 2].call = "done"
           /\ calls[n - 1].call = "dispose"
           /\ calls[n].call = "read"
           /\ \A i \in 1..(n - 3) : calls[i].call = "processLine"
           /\ Len(pl) = CountOf(last.data, Newline) + (IF unterminated THEN 1 ELSE 0)
           /\ ProcessedText(calls) = TextOf(last.data)
           /\ \A i \in 1..Len(pl) :
                 /\ Esc \notin Range(pl[i].line)
                 /\ Newline \notin Range(pl[i].line)
                 /\ pl[i].line =
                       removeAnsiEscapeCodes(
                           (LineDecoderWrite(last.data) \o <<LineDecoderEnd(last.data)>>)[i])

\* data of two lines, the first with an escape sequence, the last
\* unterminated
C28_Witness ==
    /\ last.op = "parseProblems"
    /\ last.data = <<Esc, DiagX, Newline, Note>>
    /\ last.calls = <<[call |-> "processLine", line |-> <<DiagX>>],
                      [call |-> "processLine", line |-> <<Note>>],
                      [call |-> "done"], [call |-> "dispose"], [call |-> "read"]>>

----------------------------------------------------------------------------
(* Properties of the lint runs *)

ChangeRuns == SelectSeq(lintRuns, LAMBDA r : r.cause = "change")

\* C29: at most one timer is pending, every text change cancels the timer
\* of the change before, and updateDiagnostics is called for a change only
\* when the delay has elapsed since it and no later change arrived before:
\* changes that follow each other within the delay give one lint run, for
\* the last of them.
C29_OneLintPerBurst ==
    /\ Cardinality(timers) <= 1
    /\ timers = IF didChangeTextTimer = NoTimer THEN {} ELSE {didChangeTextTimer}
    /\ \A t \in timers :
          /\ t.e = Len(changes)
          /\ t.due = changes[t.e].at + DIAGNOSTICS_ON_TYPE_DELAY_MILLIS
    /\ \A k \in 1..Len(ChangeRuns) :
          LET r == ChangeRuns[k]
          IN /\ r.e = r.seen
             /\ r.document = changes[r.e].document
             /\ r.at >= changes[r.e].at + DIAGNOSTICS_ON_TYPE_DELAY_MILLIS
             /\ r.e < Len(changes) =>
                   /\ changes[r.e + 1].at >= r.at
                   /\ changes[r.e + 1].at >=
                         changes[r.e].at + DIAGNOSTICS_ON_TYPE_DELAY_MILLIS
             /\ \A j \in 1..Len(ChangeRuns) : j # k => ChangeRuns[j].e # r.e

\* three changes within less than the delay of each other were followed by
\* one lint run, for the last of them
C29_Witness ==
    /\ Len(changes) = 3
    /\ changes[1].at < changes[2].at
    /\ changes[2].at < changes[1].at + DIAGNOSTICS_ON_TYPE_DELAY_MILLIS
    /\ changes[3].at < changes[2].at + DIAGNOSTICS_ON_TYPE_DELAY_MILLIS
    /\ Len(ChangeRuns) = 1
    /\ ChangeRuns[1].e = 3
    /\ timers = {}

----------------------------------------------------------------------------
(* Properties of BzlFeature *)

ConnectRunning == feature.pc \in {"waitForReady", "getMetadata", "onReady"}

ConnectEnded == feature.pc \in {"connected", "rejected"}

\* C31: the run of tryConnectServer and startServer ends when every call it
\* awaits settles: it makes at most four connection attempts and launches
\* at most four servers, it rejects when the attempt counter exceeds 3 and
\* attempts nothing then, and once it has connected or rejected it attempts
\* and launches nothing more.
C31_ConnectLoopTerminates ==
    /\ [](/\ feature.connects <= 4
          /\ feature.launched <= 4
          /\ feature.launched = feature.attempts
          /\ feature.pc \in {"waitForReady", "getMetadata"} => feature.attempts <= 3
          /\ feature.attempts > 3 => feature.pc \in {"onReady", "rejected"})
    /\ [][ConnectEnded => /\ feature'.pc = feature.pc
                          /\ feature'.connects = feature.connects
                          /\ feature'.launched = feature.launched]_vars
    /\ (ConnectRunning ~> ConnectEnded)

\* four attempts failed, four servers were launched and the run rejected
C31_Witness ==
    /\ feature.pc = "rejected"
    /\ feature.attempts = 4
    /\ feature.connects = 4
    /\ feature.launched = 4

\* C32: the client-changed event is fired only when waitForReady and
\* getMetadata both succeeded in the attempt that fires it, at most once in
\* a run, and not at all in a run that rejects.
C32_FiredOnceWhenConnected ==
    /\ Len(feature.fired) <= 1
    /\ \A i \in 1..Len(feature.fired) :
          feature.fired[i].ready /\ feature.fired[i].metadata
    /\ feature.fired # <<>> <=> feature.pc = "connected"
    /\ feature.pc = "rejected" => feature.fired = <<>>

\* the event was fired in the third attempt, after two servers were started
C32_Witness ==
    /\ feature.pc = "connected"
    /\ Len(feature.fired) = 1
    /\ feature.fired[1].attempts = 2
    /\ feature.launched = 2

\* C33: after dispose() every client setupStackBuildActivity created has
\* been closed exactly once and every registered disposable disposed
\* exactly once, both lists are empty, and a second dispose() closes and
\* disposes nothing.
C33_DisposeClosesEachOnce ==
    feature.op = "dispose" =>
        /\ \A c \in feature.created : CallsOf(feature.closed, c) = 1
        /\ \A d \in feature.registered : CallsOf(feature.disposed, d) = 1
        /\ feature.closeables = <<>>
        /\ feature.disposables = <<>>
        /\ feature.prevOp = "dispose" =>
              feature.closeCalls = 0 /\ feature.disposeCalls = 0

----------------------------------------------------------------------------
(* Properties of the DAP client *)

NonEmptyBodies == SelectSeq(dap.bodies, LAMBDA b : b # <<>>)

----------------------------------------------------------------------------
(* Properties of the workspace list view *)

\* C35: whenever the externals cache is set it holds the response to a
\* ListExternal request made for the workspace that is current, also when
\* the workspace changed while the request was in progress.
C35_ExternalsOfCurrentWorkspace ==
    workspaces.externals # Undefined =>
        workspaces.externals.for = workspaces.currentWorkspace

\* which external workspace a value of the selection stands for
SelectionOf(ew) == IF ew = Undefined THEN "DEFAULT" ELSE ew.id

\* C36: the event of the current external workspace is fired exactly when
\* the selected external workspace changes: the last event carries the
\* current selection, there is no event while nothing was ever selected,
\* and no two consecutive events carry the same external workspace.
C36_FiredOnChangeOnly ==
    /\ workspaces.fired = <<>> => workspaces.currentExternalWorkspace = Undefined
    /\ workspaces.fired # <<>> =>
          /\ workspaces.fired[Len(workspaces.fired)] = workspaces.currentExternalWorkspace
          /\ SelectionOf(workspaces.fired[1]) # "DEFAULT"
    /\ \A i \in 1..(Len(workspaces.fired) - 1) :
          SelectionOf(workspaces.fired[i]) # SelectionOf(workspaces.fired[i + 1])


----------------------------------------------------------------------------
(* Properties of the signup wizard *)

\* the last step was the command, run with the fields as `before` has them
AfterCommand(command) ==
    /\ signup.op.name = "command"
    /\ signup.op.command = command

\* the wizard is on its way to the plan selection: the page is drawn, or
\* the plans are being listed for it first
SelectingPlan ==
    \/ signup.panel.activeTab = "select-plan"
    \/ /\ signup.op.before.plans.undefined
       /\ [flow |-> "ListPlansFlow", jwt |-> signup.op.before.jwt]
             \in signup.flows

\* C37: every subscription request the wizard issued was issued by an
\* invocation of tryConfirm that held a non-empty jwt, a plan and a card,
\* after Subscribe was pressed on its page; a command for the plan,
\* payment or confirm step run with no jwt shows get-started, a command
\* for the payment or confirm step run with a jwt and no plan goes to the
\* plan selection, and the confirm command run with a jwt and a plan and
\* no card shows the payment page
C37_SubscriptionNeedsAll ==
    /\ \A i \in 1..Len(signup.requests) :
          LET r == signup.requests[i] IN
          /\ r.jwt # "" /\ ~r.plan.undefined /\ ~r.card.undefined
          /\ r.pressed
    /\ \A command \in {"feature.bzl.signup.plan", "feature.bzl.signup.payment",
                       "feature.bzl.signup.confirm"} :
          AfterCommand(command) /\ signup.op.before.jwt = ""
             => signup.panel.activeTab = "get-started"
    /\ \A command \in {"feature.bzl.signup.payment",
                       "feature.bzl.signup.confirm"} :
          /\ AfterCommand(command)
          /\ signup.op.before.jwt # ""
          /\ signup.op.before.selectedPlan.undefined
          => SelectingPlan
    /\ /\ AfterCommand("feature.bzl.signup.confirm")
       /\ signup.op.before.jwt # ""
       /\ ~signup.op.before.selectedPlan.undefined
       /\ signup.op.before.selectedCard.undefined
       => signup.panel.activeTab = "payment"

\* a subscription was requested, and then the confirm command was run
\* after a login that answered no jwt
C37_Witness ==
    /\ Len(signup.requests) > 0
    /\ AfterCommand("feature.bzl.signup.confirm")
    /\ signup.op.before.jwt = ""
    /\ signup.panel.activeTab = "get-started"

====
